---- MODULE Spec2Model ----
(***************************************************************************)
(* Not-following-back sweep: the workflow store (done / tbd / not-found /   *)
(* pinned / visited sets), the unfollow rate gate (90 minute and 24 hour   *)
(* sliding windows, strict cooldown) and the event handlers that renderResults *)
(* installs, with the animation-deferred callbacks of mark-done and of the *)
(* category moves.  Times are milliseconds, as Date.now() gives them.      *)
(***************************************************************************)
EXTENDS Integers, Sequences, FiniteSets, TLC

VARIABLES
  now,            \* Date.now()
  ls,             \* localStorage: the persisted keys
  all,            \* notFollowingBackAll, the flagged usernames (as a set)
  unfollowedSet,  \* in-memory sets shared by every render closure
  tbdSet,
  pnfSet,
  visitedSet,
  pinnedSet,
  phase,          \* "boot" before main, "ready" after renderResults, "error" after renderError
  ui,             \* the current render: closure variables and the rows in the DOM
  waiting,        \* animationend listeners registered on rows of the current render
  queued,         \* animationend events of one frame, being dispatched
  bat,            \* closure variables of the render whose listeners are being dispatched
  hist,           \* history: the times at which commitChecked ran
  strictSession,  \* history: strict mode ever since the event log was empty
  resetSeen,      \* history: a reset was confirmed
  ticks,          \* history: number of clock steps taken
  lim,            \* the limits of the explored session: mark-done commits, clock steps
  arg,            \* the arguments of a function called on its own
  res             \* what that call returned

vars == <<now, ls, all, unfollowedSet, tbdSet, pnfSet, visitedSet, pinnedSet,
          phase, ui, waiting, queued, bat, hist, strictSession, resetSeen, ticks, lim,
          arg, res>>

----------------------------------------------------------------------------
(* Program constants *)

LIMIT_90_MIN == 10
LIMIT_24_HOUR == 60
MS_PER_MINUTE == 60000
WINDOW_90_MIN_MS == 90 * 60 * 1000
WINDOW_24_HOUR_MS == 24 * 60 * 60 * 1000

(* Bounds of the exploration *)

MaxCommits == 1
MaxTicks == 1
GateCommits == 2
GateTicks == 1
FrameMs == 1

Users == {"u1", "u2"}
TickDeltas == {45 * MS_PER_MINUTE, 60 * MS_PER_MINUTE}

\* The clock when the session starts; old enough that events 24 hours back are positive.
T0 == 2 * WINDOW_24_HOUR_MS

----------------------------------------------------------------------------
(* Pure helpers *)

Max(a, b) == IF a >= b THEN a ELSE b

MinOf(s) == CHOOSE x \in {s[i] : i \in 1..Len(s)} : \A j \in 1..Len(s) : x <= s[j]

CeilDiv(a, b) == (a + b - 1) \div b

\* Variant of the window filter: an event whose age is the window length is out.
InWindowStrict(events, t, w) == SelectSeq(events, LAMBDA ts : t - ts < w)

InWindow(events, t, w) == SelectSeq(events, LAMBDA ts : t - ts <= w)

loadUnfollowEvents(raw) == SelectSeq(raw, LAMBDA n : n > 0)

\* Variant of the pruning: the 90 minute window in place of the 24 hour one.
pruneUnfollowEvents90(events, t) == InWindow(events, t, WINDOW_90_MIN_MS)

\* Variant of the pruning: an event exactly 24 hours old is dropped.
pruneUnfollowEventsStrict(events, t) == InWindowStrict(events, t, WINDOW_24_HOUR_MS)

pruneUnfollowEvents(events, t) == InWindow(events, t, WINDOW_24_HOUR_MS)

msToShort(ms) == Max(1, CeilDiv(ms, MS_PER_MINUTE))

getRateState(events, t) ==
  LET recent90 == InWindow(events, t, WINDOW_90_MIN_MS)
      recent24 == InWindow(events, t, WINDOW_24_HOUR_MS)
      can90 == Len(recent90) < LIMIT_90_MIN
      can24 == Len(recent24) < LIMIT_24_HOUR
      wait90 == IF can90 THEN 0 ELSE WINDOW_90_MIN_MS - (t - MinOf(recent90))
      wait24 == IF can24 THEN 0 ELSE WINDOW_24_HOUR_MS - (t - MinOf(recent24))
  IN [used90 |-> Len(recent90),
      used24 |-> Len(recent24),
      remaining90 |-> Max(0, LIMIT_90_MIN - Len(recent90)),
      remaining24 |-> Max(0, LIMIT_24_HOUR - Len(recent24)),
      canUnfollow |-> can90 /\ can24,
      wait90 |-> wait90,
      wait24 |-> wait24,
      waitText |-> IF ~can90 THEN msToShort(wait90)
                   ELSE IF ~can24 THEN msToShort(wait24) ELSE 0]

getStrictCooldownRemaining(until, t) == Max(0, until - t)

saveUnfollowEvents(store, events) == [store EXCEPT !.events = events]

saveStrictCooldownUntil(store, ts) == [store EXCEPT !.cooldown = ts]

saveSafetyMode(store, mode) == [store EXCEPT !.mode = mode]

persistSets(store, U, T, P, V, PIN) ==
  [store EXCEPT !.unfollowed = U, !.tbd = T, !.pnf = P, !.visited = V, !.pinned = PIN]

\* updateSafetyStatus, as far as it writes: the pruned log is saved back.
updateSafetyStatus(store, t) ==
  saveUnfollowEvents(store, pruneUnfollowEvents(loadUnfollowEvents(store.events), t))

----------------------------------------------------------------------------
(* Rendering: which list a username is shown in and what its row offers *)

\* The four filters of renderResults (pendingAll, tbdAll, pnfAll, doneAll).
rowType(u, U, T, P) ==
  IF u \in U THEN "done"
  ELSE IF u \in P THEN "pnf"
  ELSE IF u \in T THEN "tbd"
  ELSE "pending"

\* Variant of the filters: the tbd list does not look at not-found.
categoryListsTbdAlone(A, U, T, P) ==
  [pending |-> {u \in A : u \notin U /\ u \notin T /\ u \notin P},
   tbd |-> {u \in A : u \in T /\ u \notin U},
   pnf |-> {u \in A : u \in P /\ u \notin U},
   done |-> {u \in A : u \in U}]

\* The same four filters, as the lists they produce.
categoryLists(A, U, T, P) ==
  [pending |-> {u \in A : u \notin U /\ u \notin T /\ u \notin P},
   tbd |-> {u \in A : u \in T /\ u \notin U /\ u \notin P},
   pnf |-> {u \in A : u \in P /\ u \notin U},
   done |-> {u \in A : u \in U}]

\* One row of listHtml: the pin button state, the checkbox or the lock icon.
listHtml(u, type, strictActionLocked, PIN) ==
  [type |-> type,
   pinned |-> (type = "pending" /\ u \in PIN),
   checked |-> (type = "done"),
   control |-> IF strictActionLocked /\ type # "done" THEN "lock" ELSE "checkbox"]

\* strictLocked of renderResults: computed from the closure's unfollowEvents and
\* the stored cooldown, whatever the safety mode.
strictLockedOf(events, until, t) ==
  getStrictCooldownRemaining(until, t) > 0 \/ ~getRateState(events, t).canUnfollow

NoNotice == [blocked |-> FALSE, mins |-> 0]

renderResults(A, U, T, P, PIN, events, mode, notice, until, t) ==
  LET strictLocked == strictLockedOf(events, until, t)
  IN [safetyMode |-> mode,
      unfollowEvents |-> events,
      rateNotice |-> notice,
      strictLocked |-> strictLocked,
      lockBanner |-> (mode = "strict" /\ strictLocked),
      rows |-> [u \in A |-> listHtml(u, rowType(u, U, T, P), strictLocked, PIN)]]

NoUi == [safetyMode |-> "strict", unfollowEvents |-> <<>>, rateNotice |-> NoNotice,
         strictLocked |-> FALSE, lockBanner |-> FALSE, rows |-> <<>>]

NoEnv == [safetyMode |-> "strict", unfollowEvents |-> <<>>, rateNotice |-> NoNotice]

\* No function is being called on its own.
NoCall == [fn |-> "none"]

\* No animationend event is being dispatched: user and timer tasks can run.
Idle == phase = "ready" /\ queued = {}

----------------------------------------------------------------------------
(* Persisted state found at start *)

Burst(base, n) == [j \in 1..n |-> base + (j - 1) * MS_PER_MINUTE]

\* 59 events left by earlier strict-mode use: five bursts of ten and one of nine,
\* four hours apart, the oldest burst 23 hours old when the session starts.
B0 == T0 - WINDOW_24_HOUR_MS + 60 * MS_PER_MINUTE
Log59 ==
  Burst(B0, 10) \o Burst(B0 + 240 * MS_PER_MINUTE, 10) \o Burst(B0 + 480 * MS_PER_MINUTE, 10)
    \o Burst(B0 + 720 * MS_PER_MINUTE, 10) \o Burst(B0 + 960 * MS_PER_MINUTE, 10)
    \o Burst(B0 + 1200 * MS_PER_MINUTE, 9)

\* Eight events left by eight mark-done commits of successive frames just before
\* the session starts.
Log8 == [j \in 1..8 |-> T0 - (9 - j) * FrameMs]

\* Nine events left by nine commits of successive frames an hour before.
Log9 == [j \in 1..9 |-> T0 - 60 * MS_PER_MINUTE - (10 - j) * FrameMs]

\* Two events left by commits a day before: one exactly 24 hours old when the
\* session starts, one 23 and a half hours old.
LogOld == <<T0 - WINDOW_24_HOUR_MS, T0 - WINDOW_24_HOUR_MS + 30 * MS_PER_MINUTE>>

StoredLogs == {<<>>, Log9, LogOld}
GateLogs == {<<>>, Log8, Log9, Log59}

\* The cooldown the tenth event of the newest full burst left behind.
StoredCooldown(log) ==
  IF log = Log59 THEN B0 + 969 * MS_PER_MINUTE + WINDOW_90_MIN_MS ELSE 0

\* The stored sets are whatever JSON arrays the keys hold (loadSet): nothing, or
\* arrays that name an unflagged user and overlap, which the loops of main are
\* there to clean up.
StoredSets ==
  { [unfollowed |-> {}, tbd |-> {}, pnf |-> {}, visited |-> {}, pinned |-> {}],
    [unfollowed |-> {"u1"}, tbd |-> {"u1"}, pnf |-> {}, visited |-> {"u2"}, pinned |-> {"u1", "u2"}],
    [unfollowed |-> {"u2"}, tbd |-> {"u1", "u2"}, pnf |-> {"u1", "u2"}, visited |-> {"u1"},
     pinned |-> {"u1"}] }

FlaggedChoices == {{"u1"}}

Init ==
  /\ now = T0
  /\ \E log \in StoredLogs, mode \in {"strict", "risk"}, st \in StoredSets :
       /\ ls = [unfollowed |-> st.unfollowed, tbd |-> st.tbd, pnf |-> st.pnf,
                visited |-> st.visited, pinned |-> st.pinned,
                events |-> log, mode |-> mode, cooldown |-> StoredCooldown(log)]
       /\ strictSession = (mode = "strict")
       /\ hist = log
       /\ lim = [commits |-> Len(log) + MaxCommits, ticks |-> MaxTicks]
  /\ all \in FlaggedChoices
  /\ unfollowedSet = {} /\ tbdSet = {} /\ pnfSet = {} /\ visitedSet = {} /\ pinnedSet = {}
  /\ phase = "boot"
  /\ ui = NoUi
  /\ waiting = {} /\ queued = {} /\ bat = NoEnv
  /\ resetSeen = FALSE
  /\ ticks = 0
  /\ arg = NoCall /\ res = NoCall

----------------------------------------------------------------------------
(* main: load, reconcile the persisted sets against the flagged set, render *)

\* Variant of the loops: the visited loop is missing.
reconcileKeepVisited(store, A) ==
  LET U == store.unfollowed \cap A
      T == {u \in store.tbd : u \in A /\ u \notin U}
      P == {u \in store.pnf : u \in A /\ u \notin U}
      PIN == {u \in store.pinned : u \in A /\ u \notin U /\ u \notin T /\ u \notin P}
  IN [U |-> U, T |-> T, P |-> P, V |-> store.visited, PIN |-> PIN]

\* Variant of the loops: the first loop deletes while it walks the stored array,
\* so the entry after a deleted one is skipped ("u1" is stored before "u2").
reconcileSkipping(store, A) ==
  LET U == IF "u1" \in store.unfollowed /\ "u1" \notin A
           THEN store.unfollowed \ {"u1"}
           ELSE store.unfollowed \cap A
      T == {u \in store.tbd : u \in A /\ u \notin U}
      P == {u \in store.pnf : u \in A /\ u \notin U}
      V == store.visited \cap A
      PIN == {u \in store.pinned : u \in A /\ u \notin U /\ u \notin T /\ u \notin P}
  IN [U |-> U, T |-> T, P |-> P, V |-> V, PIN |-> PIN]

\* The five loops of main over the loaded sets.
reconcile(store, A) ==
  LET U == store.unfollowed \cap A
      T == {u \in store.tbd : u \in A /\ u \notin U}
      P == {u \in store.pnf : u \in A /\ u \notin U}
      V == store.visited \cap A
      PIN == {u \in store.pinned : u \in A /\ u \notin U /\ u \notin T /\ u \notin P}
  IN [U |-> U, T |-> T, P |-> P, V |-> V, PIN |-> PIN]

\* Variant of main: the log is pruned and saved and an expired cooldown cleared
\* before the export files are loaded.
mainSavesFirst(ok) ==
  /\ queued = {}
  /\ IF ~ok
     THEN LET unfollowEvents == pruneUnfollowEvents(loadUnfollowEvents(ls.events), now)
              s1 == IF getStrictCooldownRemaining(ls.cooldown, now) <= 0
                    THEN saveStrictCooldownUntil(ls, 0) ELSE ls
          IN /\ phase' = "error"
             /\ ui' = NoUi
             /\ unfollowedSet' = {} /\ tbdSet' = {} /\ pnfSet' = {}
             /\ visitedSet' = {} /\ pinnedSet' = {}
             /\ ls' = saveUnfollowEvents(s1, unfollowEvents)
     ELSE LET r == reconcile(ls, all)
              U == r.U
              T == r.T
              P == r.P
              V == r.V
              PIN == r.PIN
              unfollowEvents == pruneUnfollowEvents(loadUnfollowEvents(ls.events), now)
              mode == IF ls.mode = "risk" THEN "risk" ELSE "strict"
              s1 == IF getStrictCooldownRemaining(ls.cooldown, now) <= 0
                    THEN saveStrictCooldownUntil(ls, 0) ELSE ls
              s2 == saveUnfollowEvents(persistSets(s1, U, T, P, V, PIN), unfollowEvents)
          IN /\ unfollowedSet' = U /\ tbdSet' = T /\ pnfSet' = P
             /\ visitedSet' = V /\ pinnedSet' = PIN
             /\ ls' = updateSafetyStatus(s2, now)
             /\ ui' = renderResults(all, U, T, P, PIN, unfollowEvents, mode, NoNotice,
                                    s2.cooldown, now)
             /\ phase' = "ready"
  /\ waiting' = {} /\ queued' = {} /\ bat' = NoEnv
  /\ UNCHANGED <<now, all, hist, strictSession, resetSeen, ticks, lim, arg, res>>

\* main: ok says that both export files were loaded (loadJson throws at the
\* first that fails, before anything is read from or written to localStorage).
main(ok) ==
  /\ queued = {}
  /\ IF ~ok
     THEN /\ phase' = "error"
          /\ ui' = NoUi
          /\ unfollowedSet' = {} /\ tbdSet' = {} /\ pnfSet' = {}
          /\ visitedSet' = {} /\ pinnedSet' = {}
          /\ UNCHANGED ls
     ELSE LET r == reconcile(ls, all)
              U == r.U
              T == r.T
              P == r.P
              V == r.V
              PIN == r.PIN
              unfollowEvents == pruneUnfollowEvents(loadUnfollowEvents(ls.events), now)
              mode == IF ls.mode = "risk" THEN "risk" ELSE "strict"
              s1 == IF getStrictCooldownRemaining(ls.cooldown, now) <= 0
                    THEN saveStrictCooldownUntil(ls, 0) ELSE ls
              s2 == saveUnfollowEvents(persistSets(s1, U, T, P, V, PIN), unfollowEvents)
          IN /\ unfollowedSet' = U /\ tbdSet' = T /\ pnfSet' = P
             /\ visitedSet' = V /\ pinnedSet' = PIN
             /\ ls' = updateSafetyStatus(s2, now)
             /\ ui' = renderResults(all, U, T, P, PIN, unfollowEvents, mode, NoNotice,
                                    s2.cooldown, now)
             /\ phase' = "ready"
  /\ waiting' = {} /\ queued' = {} /\ bat' = NoEnv
  /\ UNCHANGED <<now, all, hist, strictSession, resetSeen, ticks, lim, arg, res>>

----------------------------------------------------------------------------
(* root.onchange: the row checkbox *)

\* The explored session has mark-done commits left (those under way counted).
commitsLeft ==
  Len(hist) + Cardinality({cb \in waiting : cb.kind = "commit"}) < lim.commits

\* What a render closure carries into its deferred callbacks.
envOf(r) == [safetyMode |-> r.safetyMode, unfollowEvents |-> r.unfollowEvents,
             rateNotice |-> r.rateNotice]

\* Variants of the gate check: without the window counts, without the
\* cooldown, without the mode.
gateRefusesNoWindow(mode, latestEvents, until, t) ==
  mode = "strict" /\ getStrictCooldownRemaining(until, t) > 0

gateRefusesNoCooldown(mode, latestEvents, until, t) ==
  mode = "strict" /\ ~getRateState(latestEvents, t).canUnfollow

gateRefusesAnyMode(mode, latestEvents, until, t) ==
  getStrictCooldownRemaining(until, t) > 0 \/ ~getRateState(latestEvents, t).canUnfollow

\* The gate check of root.onchange on the freshly loaded, pruned log.
gateRefuses(mode, latestEvents, until, t) ==
  mode = "strict"
    /\ (getStrictCooldownRemaining(until, t) > 0 \/ ~getRateState(latestEvents, t).canUnfollow)

blockedMsg(latestEvents, until, t) ==
  [blocked |-> TRUE,
   mins |-> IF getStrictCooldownRemaining(until, t) > 0
            THEN msToShort(getStrictCooldownRemaining(until, t))
            ELSE getRateState(latestEvents, t).waitText]

\* The checkbox of an unchecked row is ticked: gate check, then either the
\* refusal (re-render with the notice) or the animation that defers commitChecked.
markDoneRequest(u) ==
  /\ Idle
  /\ u \in all
  /\ ui.rows[u].control = "checkbox"
  /\ ~ui.rows[u].checked
  /\ LET latestEvents == pruneUnfollowEvents(loadUnfollowEvents(ls.events), now)
         s1 == saveUnfollowEvents(ls, latestEvents)
     IN IF gateRefuses(ui.safetyMode, latestEvents, ls.cooldown, now)
        THEN /\ ls' = updateSafetyStatus(s1, now)
             /\ ui' = renderResults(all, unfollowedSet, tbdSet, pnfSet, pinnedSet,
                                    ui.unfollowEvents, ui.safetyMode,
                                    blockedMsg(latestEvents, ls.cooldown, now),
                                    ls.cooldown, now)
             /\ waiting' = {}
        ELSE /\ commitsLeft
             /\ ls' = s1
             /\ ui' = [ui EXCEPT !.rows[u].checked = TRUE]
             /\ waiting' = waiting \cup {[kind |-> "commit", user |-> u, snap |-> latestEvents]}
  /\ UNCHANGED <<now, all, unfollowedSet, tbdSet, pnfSet, visitedSet, pinnedSet,
                 phase, queued, bat, hist, strictSession, resetSeen, ticks, lim, arg, res>>

\* Variant of the cooldown rule: set only once the count is above the limit.
commitCooldownAbove(store, mode, nextEvents, t) ==
  IF mode = "strict" /\ getRateState(nextEvents, t).used90 > LIMIT_90_MIN
  THEN saveStrictCooldownUntil(store, t + WINDOW_90_MIN_MS)
  ELSE store

\* Variant of the cooldown rule: applied whatever the mode.
commitCooldownAnyMode(store, mode, nextEvents, t) ==
  IF getRateState(nextEvents, t).used90 >= LIMIT_90_MIN
  THEN saveStrictCooldownUntil(store, t + WINDOW_90_MIN_MS)
  ELSE store

\* Variant of the cooldown rule: the window length is not added to the clock.
commitCooldownNoWindow(store, mode, nextEvents, t) ==
  IF mode = "strict" /\ getRateState(nextEvents, t).used90 >= LIMIT_90_MIN
  THEN saveStrictCooldownUntil(store, t)
  ELSE store

\* The cooldown rule of commitChecked, applied to the log it has just saved.
commitCooldown(store, mode, nextEvents, t) ==
  IF mode = "strict" /\ getRateState(nextEvents, t).used90 >= LIMIT_90_MIN
  THEN saveStrictCooldownUntil(store, t + WINDOW_90_MIN_MS)
  ELSE store

\* The four set updates of commitChecked.
commitSets(u, sets) ==
  [U |-> sets.U \cup {u}, T |-> sets.T \ {u}, P |-> sets.P \ {u}, PIN |-> sets.PIN \ {u}]

\* commitChecked, run by the animationend event of the row.
commitChecked(cb) ==
  /\ phase = "ready"
  /\ cb \in queued
  /\ cb.kind = "commit"
  /\ LET latestEvents == Append(cb.snap, now)
         nextEvents == pruneUnfollowEvents(latestEvents, now)
         s1 == saveUnfollowEvents(ls, nextEvents)
         s2 == commitCooldown(s1, bat.safetyMode, nextEvents, now)
         n == commitSets(cb.user, [U |-> unfollowedSet, T |-> tbdSet, P |-> pnfSet,
                                   PIN |-> pinnedSet])
         U == n.U
         T == n.T
         P == n.P
         PIN == n.PIN
         s3 == persistSets(s2, U, T, P, visitedSet, PIN)
     IN /\ unfollowedSet' = U /\ tbdSet' = T /\ pnfSet' = P /\ pinnedSet' = PIN
        /\ ls' = updateSafetyStatus(s3, now)
        /\ ui' = renderResults(all, U, T, P, PIN, nextEvents, bat.safetyMode, NoNotice,
                               s3.cooldown, now)
        /\ bat' = IF queued = {cb} THEN NoEnv ELSE [bat EXCEPT !.unfollowEvents = nextEvents]
  /\ queued' = queued \ {cb}
  /\ waiting' = {}
  /\ hist' = IF Len(hist) < lim.commits THEN Append(hist, now) ELSE hist
  /\ UNCHANGED <<now, all, visitedSet, phase, strictSession, resetSeen, ticks, lim, arg, res>>

\* The checkbox of a checked row is cleared.
uncheck(u) ==
  /\ Idle
  /\ u \in all
  /\ ui.rows[u].control = "checkbox"
  /\ ui.rows[u].checked
  /\ LET U == unfollowedSet \ {u}
         s1 == persistSets(ls, U, tbdSet, pnfSet, visitedSet, pinnedSet)
     IN /\ unfollowedSet' = U
        /\ ls' = updateSafetyStatus(s1, now)
        /\ ui' = renderResults(all, U, tbdSet, pnfSet, pinnedSet, ui.unfollowEvents,
                               ui.safetyMode, NoNotice, ls.cooldown, now)
  /\ waiting' = {}
  /\ UNCHANGED <<now, all, tbdSet, pnfSet, visitedSet, pinnedSet, phase, queued, bat,
                 hist, strictSession, resetSeen, ticks, lim, arg, res>>

----------------------------------------------------------------------------
(* root.onclick: the row buttons *)

\* Variant of the row buttons: none on a row that shows the lock.
hasButtonUnlocked(row, action) ==
  /\ row.control # "lock"
  /\ CASE action = "to-tbd" -> row.type = "pending"
        [] action = "to-pending" -> row.type \in {"tbd", "pnf"}
        [] action = "to-pnf" -> row.type \in {"pending", "tbd"}
        [] action = "pin" -> row.type = "pending" /\ ~row.pinned
        [] action = "unpin" -> row.type = "pending" /\ row.pinned

hasButton(row, action) ==
  CASE action = "to-tbd" -> row.type = "pending"
    [] action = "to-pending" -> row.type \in {"tbd", "pnf"}
    [] action = "to-pnf" -> row.type \in {"pending", "tbd"}
    [] action = "pin" -> row.type = "pending" /\ ~row.pinned
    [] action = "unpin" -> row.type = "pending" /\ row.pinned

\* animateMove: the move itself waits for the row's animationend.
animateMove(action, u) ==
  /\ Idle
  /\ u \in all
  /\ action \in {"to-tbd", "to-pnf", "to-pending"}
  /\ hasButton(ui.rows[u], action)
  /\ waiting' = waiting \cup {[kind |-> action, user |-> u, snap |-> <<>>]}
  /\ UNCHANGED <<now, ls, all, unfollowedSet, tbdSet, pnfSet, visitedSet, pinnedSet,
                 phase, ui, queued, bat, hist, strictSession, resetSeen, ticks, lim, arg, res>>

\* Variants of the moves: to-pnf that leaves tbd alone, to-tbd that leaves the pin.
moveSetsKeepTbd(action, u, sets) ==
  CASE action = "to-tbd" ->
         [U |-> sets.U \ {u}, T |-> sets.T \cup {u}, P |-> sets.P \ {u}, PIN |-> sets.PIN \ {u}]
    [] action = "to-pnf" ->
         [U |-> sets.U \ {u}, T |-> sets.T, P |-> sets.P \cup {u}, PIN |-> sets.PIN \ {u}]
    [] action = "to-pending" ->
         [U |-> sets.U \ {u}, T |-> sets.T \ {u}, P |-> sets.P \ {u}, PIN |-> sets.PIN]

moveSetsKeepPin(action, u, sets) ==
  CASE action = "to-tbd" ->
         [U |-> sets.U \ {u}, T |-> sets.T \cup {u}, P |-> sets.P \ {u}, PIN |-> sets.PIN]
    [] action = "to-pnf" ->
         [U |-> sets.U \ {u}, T |-> sets.T \ {u}, P |-> sets.P \cup {u}, PIN |-> sets.PIN \ {u}]
    [] action = "to-pending" ->
         [U |-> sets.U \ {u}, T |-> sets.T \ {u}, P |-> sets.P \ {u}, PIN |-> sets.PIN]

\* The set updates of the three moves.
moveSets(action, u, sets) ==
  CASE action = "to-tbd" ->
         [U |-> sets.U \ {u}, T |-> sets.T \cup {u}, P |-> sets.P \ {u}, PIN |-> sets.PIN \ {u}]
    [] action = "to-pnf" ->
         [U |-> sets.U \ {u}, T |-> sets.T \ {u}, P |-> sets.P \cup {u}, PIN |-> sets.PIN \ {u}]
    [] action = "to-pending" ->
         [U |-> sets.U \ {u}, T |-> sets.T \ {u}, P |-> sets.P \ {u}, PIN |-> sets.PIN]

\* The onDone callback of animateMove.
moveDone(cb) ==
  /\ phase = "ready"
  /\ cb \in queued
  /\ cb.kind \in {"to-tbd", "to-pnf", "to-pending"}
  /\ LET n == moveSets(cb.kind, cb.user, [U |-> unfollowedSet, T |-> tbdSet, P |-> pnfSet,
                                            PIN |-> pinnedSet])
         U == n.U
         T == n.T
         P == n.P
         PIN == n.PIN
         s1 == persistSets(ls, U, T, P, visitedSet, PIN)
     IN /\ unfollowedSet' = U /\ tbdSet' = T /\ pnfSet' = P /\ pinnedSet' = PIN
        /\ ls' = updateSafetyStatus(s1, now)
        /\ ui' = renderResults(all, U, T, P, PIN, bat.unfollowEvents, bat.safetyMode,
                               bat.rateNotice, ls.cooldown, now)
  /\ bat' = IF queued = {cb} THEN NoEnv ELSE bat
  /\ queued' = queued \ {cb}
  /\ waiting' = {}
  /\ UNCHANGED <<now, all, visitedSet, phase, hist, strictSession, resetSeen, ticks, lim, arg, res>>

\* The pin / unpin button of a pending row.
pinToggle(action, u) ==
  /\ Idle
  /\ u \in all
  /\ action \in {"pin", "unpin"}
  /\ hasButton(ui.rows[u], action)
  /\ LET PIN == IF action = "pin" THEN pinnedSet \cup {u} ELSE pinnedSet \ {u}
         s1 == persistSets(ls, unfollowedSet, tbdSet, pnfSet, visitedSet, PIN)
     IN /\ pinnedSet' = PIN
        /\ ls' = updateSafetyStatus(s1, now)
        /\ ui' = renderResults(all, unfollowedSet, tbdSet, pnfSet, PIN, ui.unfollowEvents,
                               ui.safetyMode, ui.rateNotice, ls.cooldown, now)
  /\ waiting' = {}
  /\ UNCHANGED <<now, all, unfollowedSet, tbdSet, pnfSet, visitedSet, phase, queued, bat,
                 hist, strictSession, resetSeen, ticks, lim, arg, res>>

\* The profile link of a row: marks the username visited, no re-render.
openProfile(u) ==
  /\ Idle
  /\ u \in all
  /\ visitedSet' = visitedSet \cup {u}
  /\ ls' = persistSets(ls, unfollowedSet, tbdSet, pnfSet, visitedSet \cup {u}, pinnedSet)
  /\ UNCHANGED <<now, all, unfollowedSet, tbdSet, pnfSet, pinnedSet, phase, ui, waiting,
                 queued, bat, hist, strictSession, resetSeen, ticks, lim, arg, res>>

\* Variant of the safety toggle: the switch also clears the cooldown.
toggleSafetyClearsCooldown ==
  /\ Idle
  /\ LET nextMode == IF ui.safetyMode = "strict" THEN "risk" ELSE "strict"
         s1 == saveStrictCooldownUntil(saveSafetyMode(ls, nextMode), 0)
     IN /\ ls' = updateSafetyStatus(s1, now)
        /\ ui' = renderResults(all, unfollowedSet, tbdSet, pnfSet, pinnedSet,
                               ui.unfollowEvents, nextMode, NoNotice, 0, now)
  /\ waiting' = {}
  /\ strictSession' = FALSE
  /\ UNCHANGED <<now, all, unfollowedSet, tbdSet, pnfSet, visitedSet, pinnedSet, phase,
                 queued, bat, hist, resetSeen, ticks, lim, arg, res>>

toggleSafety ==
  /\ Idle
  /\ LET nextMode == IF ui.safetyMode = "strict" THEN "risk" ELSE "strict"
         s1 == saveSafetyMode(ls, nextMode)
     IN /\ ls' = updateSafetyStatus(s1, now)
        /\ ui' = renderResults(all, unfollowedSet, tbdSet, pnfSet, pinnedSet,
                               ui.unfollowEvents, nextMode, NoNotice, ls.cooldown, now)
  /\ waiting' = {}
  /\ strictSession' = FALSE
  /\ UNCHANGED <<now, all, unfollowedSet, tbdSet, pnfSet, visitedSet, pinnedSet, phase,
                 queued, bat, hist, resetSeen, ticks, lim, arg, res>>

\* The handlers that only re-render (list toggles, verify, sort, search).
rerender ==
  /\ Idle
  /\ ls' = updateSafetyStatus(ls, now)
  /\ ui' = renderResults(all, unfollowedSet, tbdSet, pnfSet, pinnedSet, ui.unfollowEvents,
                         ui.safetyMode, ui.rateNotice, ls.cooldown, now)
  /\ waiting' = {}
  /\ UNCHANGED <<now, all, unfollowedSet, tbdSet, pnfSet, visitedSet, pinnedSet, phase,
                 queued, bat, hist, strictSession, resetSeen, ticks, lim, arg, res>>

\* Variant of the reset handler: the pinned set is not cleared.
resetProgressKeepPinned(confirmed) ==
  /\ Idle
  /\ IF ~confirmed
     THEN UNCHANGED <<ls, unfollowedSet, tbdSet, pnfSet, visitedSet, pinnedSet, ui, waiting>>
     ELSE LET s1 == saveStrictCooldownUntil(persistSets(ls, {}, {}, {}, {}, pinnedSet), 0)
          IN /\ unfollowedSet' = {} /\ tbdSet' = {} /\ pnfSet' = {}
             /\ visitedSet' = {} /\ pinnedSet' = pinnedSet
             /\ ls' = updateSafetyStatus(s1, now)
             /\ ui' = renderResults(all, {}, {}, {}, {}, ui.unfollowEvents, ui.safetyMode,
                                    NoNotice, 0, now)
             /\ waiting' = {}
  /\ resetSeen' = (resetSeen \/ confirmed)
  /\ UNCHANGED <<now, all, phase, queued, bat, hist, strictSession, ticks, lim, arg, res>>

\* Variant of the reset handler: the event log is cleared with the sets.
resetProgressClearsLog(confirmed) ==
  /\ Idle
  /\ IF ~confirmed
     THEN UNCHANGED <<ls, unfollowedSet, tbdSet, pnfSet, visitedSet, pinnedSet, ui, waiting>>
     ELSE LET s1 == saveUnfollowEvents(
                      saveStrictCooldownUntil(persistSets(ls, {}, {}, {}, {}, {}), 0), <<>>)
          IN /\ unfollowedSet' = {} /\ tbdSet' = {} /\ pnfSet' = {}
             /\ visitedSet' = {} /\ pinnedSet' = {}
             /\ ls' = updateSafetyStatus(s1, now)
             /\ ui' = renderResults(all, {}, {}, {}, {}, <<>>, ui.safetyMode,
                                    NoNotice, 0, now)
             /\ waiting' = {}
  /\ resetSeen' = (resetSeen \/ confirmed)
  /\ UNCHANGED <<now, all, phase, queued, bat, hist, strictSession, ticks, lim, arg, res>>

resetProgress(confirmed) ==
  /\ Idle
  /\ IF ~confirmed
     THEN UNCHANGED <<ls, unfollowedSet, tbdSet, pnfSet, visitedSet, pinnedSet, ui, waiting>>
     ELSE LET s1 == saveStrictCooldownUntil(persistSets(ls, {}, {}, {}, {}, {}), 0)
          IN /\ unfollowedSet' = {} /\ tbdSet' = {} /\ pnfSet' = {}
             /\ visitedSet' = {} /\ pinnedSet' = {}
             /\ ls' = updateSafetyStatus(s1, now)
             /\ ui' = renderResults(all, {}, {}, {}, {}, ui.unfollowEvents, ui.safetyMode,
                                    NoNotice, 0, now)
             /\ waiting' = {}
  /\ resetSeen' = (resetSeen \/ confirmed)
  /\ UNCHANGED <<now, all, phase, queued, bat, hist, strictSession, ticks, lim, arg, res>>

----------------------------------------------------------------------------
(* Timers, frames and the clock *)

\* The one-second interval that startSafetyTicker sets in strict mode.
safetyTicker ==
  /\ Idle
  /\ ui.safetyMode = "strict"
  /\ ls' = updateSafetyStatus(ls, now)
  /\ UNCHANGED <<now, all, unfollowedSet, tbdSet, pnfSet, visitedSet, pinnedSet, phase,
                 ui, waiting, queued, bat, hist, strictSession, resetSeen, ticks, lim, arg, res>>

\* A frame in which the animations of some rows end: their animationend events
\* are dispatched one after the other, with no other task in between.  The time
\* the animation took is counted where a callback stores the clock (commitChecked),
\* so that commits of different frames never share a timestamp.
frameEnd(S) ==
  /\ Idle
  /\ S # {}
  /\ S \subseteq waiting
  /\ queued' = S
  /\ waiting' = waiting \ S
  /\ bat' = envOf(ui)
  /\ now' = IF \E cb \in S : cb.kind = "commit" THEN now + FrameMs ELSE now
  /\ UNCHANGED <<ls, all, unfollowedSet, tbdSet, pnfSet, visitedSet, pinnedSet,
                 phase, ui, hist, strictSession, resetSeen, ticks, lim, arg, res>>

tick(d) ==
  /\ Idle
  /\ ticks < lim.ticks
  /\ now' = now + d
  /\ ticks' = ticks + 1
  /\ UNCHANGED <<ls, all, unfollowedSet, tbdSet, pnfSet, visitedSet, pinnedSet, phase,
                 ui, waiting, queued, bat, hist, strictSession, resetSeen, lim, arg, res>>

\* localStorage is shared by every tab of the page.  A second tab is opened (main
\* on the stored state), the checkbox of one of its rows is ticked and its
\* commitChecked runs a frame later, while this tab is idle.
otherTab(u) ==
  /\ Idle
  /\ u \in all
  /\ commitsLeft
  /\ LET r == reconcile(ls, all)
         mode == IF ls.mode = "risk" THEN "risk" ELSE "strict"
         s0 == IF getStrictCooldownRemaining(ls.cooldown, now) <= 0
               THEN saveStrictCooldownUntil(ls, 0) ELSE ls
         latestEvents == pruneUnfollowEvents(loadUnfollowEvents(ls.events), now)
         t == now + FrameMs
         nextEvents == pruneUnfollowEvents(Append(latestEvents, t), t)
         s1 == commitCooldown(saveUnfollowEvents(s0, nextEvents), mode, nextEvents, t)
         n == commitSets(u, [U |-> r.U, T |-> r.T, P |-> r.P, PIN |-> r.PIN])
     IN /\ u \notin r.U
        /\ ~strictLockedOf(latestEvents, s0.cooldown, now)
        /\ ~gateRefuses(mode, latestEvents, s0.cooldown, now)
        /\ ls' = persistSets(s1, n.U, n.T, n.P, r.V, n.PIN)
        /\ now' = t
        /\ hist' = Append(hist, t)
  /\ UNCHANGED <<all, unfollowedSet, tbdSet, pnfSet, visitedSet, pinnedSet, phase, ui,
                 waiting, queued, bat, strictSession, resetSeen, ticks, lim, arg, res>>

----------------------------------------------------------------------------

Next ==
 \/ \E ok \in BOOLEAN : main(ok)
 \/ \E u \in Users : markDoneRequest(u)
 \/ \E cb \in queued : commitChecked(cb)
 \/ \E u \in Users : uncheck(u)
 \/ \E u \in Users, a \in {"to-tbd", "to-pnf", "to-pending"} : animateMove(a, u)
 \/ \E cb \in queued : moveDone(cb)
 \/ \E u \in Users, a \in {"pin", "unpin"} : pinToggle(a, u)
 \/ \E u \in Users : openProfile(u)
 \/ toggleSafety
 \/ rerender
 \/ \E c \in BOOLEAN : resetProgress(c)
 \/ safetyTicker
 \/ \E S \in SUBSET waiting : frameEnd(S)
 \/ \E d \in TickDeltas : tick(d)
 \/ \E u \in Users : otherTab(u)

Spec == Init /\ [][Next]_vars

\* A session on the rate gate alone: every user flagged and pending, nothing
\* persisted but the log, and the handlers that read or write the log, the
\* cooldown or the mode (the other handlers touch none of them; what they share
\* with these, the re-render, is the action rerender).
InitGate ==
  /\ now = T0
  /\ \E log \in GateLogs, mode \in {"strict", "risk"} :
       /\ ls = [unfollowed |-> {}, tbd |-> {}, pnf |-> {}, visited |-> {}, pinned |-> {},
                events |-> log, mode |-> mode, cooldown |-> StoredCooldown(log)]
       /\ strictSession = (mode = "strict")
       /\ hist = log
       /\ lim = [commits |-> Len(log) + GateCommits, ticks |-> GateTicks]
  /\ all = Users
  /\ unfollowedSet = {} /\ tbdSet = {} /\ pnfSet = {} /\ visitedSet = {} /\ pinnedSet = {}
  /\ phase = "boot"
  /\ ui = NoUi
  /\ waiting = {} /\ queued = {} /\ bat = NoEnv
  /\ resetSeen = FALSE
  /\ ticks = 0
  /\ arg = NoCall /\ res = NoCall

NextGate ==
 \/ \E ok \in BOOLEAN : main(ok)
 \/ \E u \in Users : markDoneRequest(u)
 \/ \E cb \in queued : commitChecked(cb)
 \/ \E u \in Users : uncheck(u)
 \/ toggleSafety
 \/ rerender
 \/ \E c \in BOOLEAN : resetProgress(c)
 \/ safetyTicker
 \/ \E S \in SUBSET waiting : frameEnd(S)
 \/ \E d \in TickDeltas : tick(d)
 \/ \E u \in Users : otherTab(u)

SpecGate == InitGate /\ [][NextGate]_vars

\* 59 events left by a day of strict-mode use: five bursts of ten, two hours
\* apart, the oldest twelve hours old when the session starts, and nine commits an
\* hour before.  The cooldown the fifth burst set has run out.
LogDay ==
  Burst(T0 - 720 * MS_PER_MINUTE, 10) \o Burst(T0 - 600 * MS_PER_MINUTE, 10)
    \o Burst(T0 - 480 * MS_PER_MINUTE, 10) \o Burst(T0 - 360 * MS_PER_MINUTE, 10)
    \o Burst(T0 - 240 * MS_PER_MINUTE, 10) \o Log9

\* The session on the rate gate, started on that log.
InitWait ==
  /\ now = T0
  /\ \E mode \in {"strict", "risk"} :
       /\ ls = [unfollowed |-> {}, tbd |-> {}, pnf |-> {}, visited |-> {}, pinned |-> {},
                events |-> LogDay, mode |-> mode, cooldown |-> StoredCooldown(LogDay)]
       /\ strictSession = (mode = "strict")
  /\ hist = LogDay
  /\ lim = [commits |-> Len(LogDay) + GateCommits, ticks |-> GateTicks]
  /\ all = Users
  /\ unfollowedSet = {} /\ tbdSet = {} /\ pnfSet = {} /\ visitedSet = {} /\ pinnedSet = {}
  /\ phase = "boot"
  /\ ui = NoUi
  /\ waiting = {} /\ queued = {} /\ bat = NoEnv
  /\ resetSeen = FALSE
  /\ ticks = 0
  /\ arg = NoCall /\ res = NoCall

SpecWait == InitWait /\ [][NextGate]_vars

\* A strict-mode session on the rate gate long enough for a cooldown set in it
\* to run out: eight or nine commits already in the 90 minute window, and one
\* clock step more than in the other sessions.
InitStrict ==
  /\ now = T0
  /\ \E log \in {Log8, Log9} :
       /\ ls = [unfollowed |-> {}, tbd |-> {}, pnf |-> {}, visited |-> {}, pinned |-> {},
                events |-> log, mode |-> "strict", cooldown |-> StoredCooldown(log)]
       /\ hist = log
       /\ lim = [commits |-> Len(log) + GateCommits, ticks |-> GateTicks + 1]
  /\ strictSession = TRUE
  /\ all = Users
  /\ unfollowedSet = {} /\ tbdSet = {} /\ pnfSet = {} /\ visitedSet = {} /\ pinnedSet = {}
  /\ phase = "boot"
  /\ ui = NoUi
  /\ waiting = {} /\ queued = {} /\ bat = NoEnv
  /\ resetSeen = FALSE
  /\ ticks = 0
  /\ arg = NoCall /\ res = NoCall

SpecStrict == InitStrict /\ [][NextGate]_vars

----------------------------------------------------------------------------
(* Functions called on their own, on arguments drawn at the start *)

callVars == <<now, ls, all, unfollowedSet, tbdSet, pnfSet, visitedSet, pinnedSet,
              phase, ui, waiting, queued, bat, hist, strictSession, resetSeen, ticks, lim>>

EmptyStore == [unfollowed |-> {}, tbd |-> {}, pnf |-> {}, visited |-> {}, pinned |-> {},
               events |-> <<>>, mode |-> "strict", cooldown |-> 0]

\* The page itself is not loaded while a function is called on its own.
Parked ==
  /\ now = T0
  /\ ls = EmptyStore
  /\ all = {}
  /\ unfollowedSet = {} /\ tbdSet = {} /\ pnfSet = {} /\ visitedSet = {} /\ pinnedSet = {}
  /\ phase = "boot"
  /\ ui = NoUi
  /\ waiting = {} /\ queued = {} /\ bat = NoEnv
  /\ hist = <<>>
  /\ strictSession = FALSE
  /\ resetSeen = FALSE
  /\ ticks = 0
  /\ lim = [commits |-> 0, ticks |-> 0]

\* Event lists around the limits and the window edges: m events some 12 hours
\* old, then n events of which the oldest has age a and the others are younger
\* by a millisecond each.
EdgeAges == {0 - 1, 0, WINDOW_90_MIN_MS - 1, WINDOW_90_MIN_MS, WINDOW_90_MIN_MS + 1,
             WINDOW_24_HOUR_MS - 1, WINDOW_24_HOUR_MS, WINDOW_24_HOUR_MS + 1}
BurstSizes == {0, 1, LIMIT_90_MIN - 1, LIMIT_90_MIN, LIMIT_90_MIN + 1}
FillerSizes == {0, LIMIT_24_HOUR - LIMIT_90_MIN - 1, LIMIT_24_HOUR - LIMIT_90_MIN,
                LIMIT_24_HOUR}

EdgeLog(t, m, n, a) ==
  [j \in 1..m |-> t - 12 * 60 * MS_PER_MINUTE - j] \o [j \in 1..n |-> t - a + (j - 1)]

RateCalls ==
  {[fn |-> "getRateState", events |-> EdgeLog(t, m, n, a), now |-> t] :
     t \in {T0, T0 + WINDOW_90_MIN_MS}, m \in FillerSizes, n \in BurstSizes, a \in EdgeAges}

InitRate ==
  /\ Parked
  /\ arg \in RateCalls
  /\ res = NoCall

callGetRateState ==
  /\ arg.fn = "getRateState"
  /\ res = NoCall
  /\ res' = [fn |-> "getRateState", value |-> getRateState(arg.events, arg.now)]
  /\ UNCHANGED <<callVars, arg>>

NextRate == callGetRateState

SpecRate == InitRate /\ [][NextRate]_vars

\* The four list filters of renderResults on every flagged set and every
\* content of the three sets.
ListCalls ==
  {[fn |-> "categoryLists", all |-> A, U |-> U, T |-> T, P |-> P] :
     A \in SUBSET Users, U \in SUBSET Users, T \in SUBSET Users, P \in SUBSET Users}

InitLists ==
  /\ Parked
  /\ arg \in ListCalls
  /\ res = NoCall

callCategoryLists ==
  /\ arg.fn = "categoryLists"
  /\ res = NoCall
  /\ res' = [fn |-> "categoryLists", value |-> categoryLists(arg.all, arg.U, arg.T, arg.P)]
  /\ UNCHANGED <<callVars, arg>>

NextLists == callCategoryLists

SpecLists == InitLists /\ [][NextLists]_vars

\* The loops of main on every flagged set and every content of the stored sets.
ReconcileCalls ==
  {[fn |-> "reconcile", all |-> A,
    store |-> [unfollowed |-> U, tbd |-> T, pnf |-> P, visited |-> V, pinned |-> PIN]] :
     A \in SUBSET Users, U \in SUBSET Users, T \in SUBSET Users, P \in SUBSET Users,
     V \in SUBSET Users, PIN \in SUBSET Users}

InitReconcile ==
  /\ Parked
  /\ arg \in ReconcileCalls
  /\ res = NoCall

callReconcile ==
  /\ arg.fn = "reconcile"
  /\ res = NoCall
  /\ res' = [fn |-> "reconcile", value |-> reconcile(arg.store, arg.all)]
  /\ UNCHANGED <<callVars, arg>>

NextReconcile == callReconcile

SpecReconcile == InitReconcile /\ [][NextReconcile]_vars

----------------------------------------------------------------------------
(* The export records and the flagged set *)

\* A string of an export file is the sequence of its characters.
LowerChars ==
  <<"a", "b", "c", "d", "e", "f", "g", "h", "i", "j", "k", "l", "m",
    "n", "o", "p", "q", "r", "s", "t", "u", "v", "w", "x", "y", "z">>

UpperChars ==
  <<"A", "B", "C", "D", "E", "F", "G", "H", "I", "J", "K", "L", "M",
    "N", "O", "P", "Q", "R", "S", "T", "U", "V", "W", "X", "Y", "Z">>

\* The characters that USERNAME_RE accepts.
UsernameChars ==
  {LowerChars[k] : k \in DOMAIN LowerChars}
    \cup {"0", "1", "2", "3", "4", "5", "6", "7", "8", "9", ".", "_"}

Whitespace == {" "}

Range(s) == {s[i] : i \in DOMAIN s}

toLowerCase(s) ==
  [i \in DOMAIN s |->
     IF \E k \in DOMAIN UpperChars : UpperChars[k] = s[i]
     THEN LowerChars[CHOOSE k \in DOMAIN UpperChars : UpperChars[k] = s[i]]
     ELSE s[i]]

RECURSIVE trimStart(_)
trimStart(s) ==
  IF s # <<>> /\ Head(s) \in Whitespace THEN trimStart(Tail(s)) ELSE s

RECURSIVE trimEnd(_)
trimEnd(s) ==
  IF s # <<>> /\ s[Len(s)] \in Whitespace THEN trimEnd(SubSeq(s, 1, Len(s) - 1)) ELSE s

trim(s) == trimEnd(trimStart(s))

\* replace(/^@/, ""): one leading "@" is dropped.
stripAt(s) == IF s # <<>> /\ Head(s) = "@" THEN Tail(s) ELSE s

\* Variant of norm: the case is kept.
normKeepsCase(s) == stripAt(trim(s))

norm(s) == toLowerCase(stripAt(trim(s)))

isValidUsername(username) ==
  /\ Len(username) \in 1..30
  /\ \A i \in DOMAIN username : username[i] \in UsernameChars

RECURSIVE unique(_)
unique(arr) ==
  IF arr = <<>>
  THEN <<>>
  ELSE LET front == unique(SubSeq(arr, 1, Len(arr) - 1))
           x == arr[Len(arr)]
       IN IF x \in Range(front) THEN front ELSE Append(front, x)

\* An href is absent, an absolute URL (new URL succeeds) or a string without a
\* scheme (new URL throws and the regular expression is tried); path holds the
\* pieces of the path between the slashes.
NoHref == [form |-> "none", host |-> "", path |-> <<>>]

marker == <<"_", "u">>

\* Variant of the URL branch: the last segment is taken instead of the first.
parseUsernameFromHrefLast(href) ==
  IF href.form = "none"
  THEN <<>>
  ELSE IF href.form = "absolute"
  THEN LET segments == SelectSeq(href.path, LAMBDA x : x # <<>>)
       IN IF segments = <<>>
          THEN <<>>
          ELSE IF segments[1] = marker /\ Len(segments) >= 2
          THEN segments[2]
          ELSE segments[Len(segments)]
  ELSE IF href.host \notin {"instagram.com", "www.instagram.com"} \/ href.path = <<>>
  THEN <<>>
  ELSE IF href.path[1] = marker /\ Len(href.path) >= 2 /\ href.path[2] # <<>>
  THEN href.path[2]
  ELSE href.path[1]

parseUsernameFromHref(href) ==
  IF href.form = "none"
  THEN <<>>
  ELSE IF href.form = "absolute"
  THEN LET segments == SelectSeq(href.path, LAMBDA x : x # <<>>)
       IN IF segments = <<>>
          THEN <<>>
          ELSE IF segments[1] = marker /\ Len(segments) >= 2
          THEN segments[2]
          ELSE segments[1]
  ELSE IF href.host \notin {"instagram.com", "www.instagram.com"} \/ href.path = <<>>
  THEN <<>>
  ELSE IF href.path[1] = marker /\ Len(href.path) >= 2 /\ href.path[2] # <<>>
  THEN href.path[2]
  ELSE href.path[1]

\* Variant of extractUsername: a name that fails the pattern is passed over.
extractUsernameValid(entry) ==
  LET fromTitle == norm(entry.title)
      fromValue == norm(entry.value)
      fromHref == norm(parseUsernameFromHref(entry.href))
  IN IF isValidUsername(fromTitle) THEN fromTitle
     ELSE IF isValidUsername(fromValue) THEN fromValue
     ELSE IF isValidUsername(fromHref) THEN fromHref
     ELSE <<>>

extractUsername(entry) ==
  LET fromTitle == norm(entry.title)
      fromValue == norm(entry.value)
      fromHref == norm(parseUsernameFromHref(entry.href))
  IN IF fromTitle # <<>> THEN fromTitle
     ELSE IF fromValue # <<>> THEN fromValue
     ELSE fromHref

extractTimestamp(entry) == entry.timestamp

extractCandidateUsernames(entry) ==
  unique(SelectSeq(<<norm(entry.title), norm(entry.value),
                     norm(parseUsernameFromHref(entry.href))>>,
                   LAMBDA u : u # <<>> /\ isValidUsername(u)))

\* Variant of the lookup: the valid primary names of the follower records only.
followerLookupPrimaries(followerEntries) ==
  {extractUsername(followerEntries[i]) : i \in DOMAIN followerEntries}
    \cap {u \in {extractUsername(followerEntries[i]) : i \in DOMAIN followerEntries} :
            isValidUsername(u)}

followerLookup(followerEntries) ==
  UNION {Range(extractCandidateUsernames(followerEntries[i])) : i \in DOMAIN followerEntries}

\* Variant of the loop: a record with an equal timestamp replaces the row.
RECURSIVE followingRowsLastOnTie(_)
followingRowsLastOnTie(followingEntries) ==
  IF followingEntries = <<>>
  THEN <<>>
  ELSE LET rows == followingRowsLastOnTie(SubSeq(followingEntries, 1, Len(followingEntries) - 1))
           entry == followingEntries[Len(followingEntries)]
           primary == extractUsername(entry)
           row == [username |-> primary, timestamp |-> extractTimestamp(entry),
                   candidates |-> extractCandidateUsernames(entry)]
       IN IF ~isValidUsername(primary)
          THEN rows
          ELSE IF \E i \in DOMAIN rows : rows[i].username = primary
          THEN LET i == CHOOSE k \in DOMAIN rows : rows[k].username = primary
               IN IF row.timestamp >= rows[i].timestamp THEN [rows EXCEPT ![i] = row] ELSE rows
          ELSE Append(rows, row)

\* The Map of main after its loop over the following entries, in insertion order.
RECURSIVE followingRowsByUsername(_)
followingRowsByUsername(followingEntries) ==
  IF followingEntries = <<>>
  THEN <<>>
  ELSE LET rows == followingRowsByUsername(SubSeq(followingEntries, 1, Len(followingEntries) - 1))
           entry == followingEntries[Len(followingEntries)]
           primary == extractUsername(entry)
           row == [username |-> primary, timestamp |-> extractTimestamp(entry),
                   candidates |-> extractCandidateUsernames(entry)]
       IN IF ~isValidUsername(primary)
          THEN rows
          ELSE IF \E i \in DOMAIN rows : rows[i].username = primary
          THEN LET i == CHOOSE k \in DOMAIN rows : rows[k].username = primary
               IN IF row.timestamp > rows[i].timestamp THEN [rows EXCEPT ![i] = row] ELSE rows
          ELSE Append(rows, row)

\* Variant of the filter: a row is compared by its primary name with the primary
\* names of the follower records.
notFollowingBackAllByPrimary(followerEntries, followingEntries) ==
  LET lookup == followerLookupPrimaries(followerEntries)
      followingRows == followingRowsByUsername(followingEntries)
      kept == SelectSeq(followingRows, LAMBDA row : row.username \notin lookup)
  IN [i \in DOMAIN kept |-> kept[i].username]

\* Variant of the filter: a row is dropped only when every candidate is a follower.
notFollowingBackAllEvery(followerEntries, followingEntries) ==
  LET lookup == followerLookup(followerEntries)
      followingRows == followingRowsByUsername(followingEntries)
      kept == SelectSeq(followingRows,
                        LAMBDA row : ~\A i \in DOMAIN row.candidates : row.candidates[i] \in lookup)
  IN [i \in DOMAIN kept |-> kept[i].username]

notFollowingBackAll(followerEntries, followingEntries) ==
  LET lookup == followerLookup(followerEntries)
      followingRows == followingRowsByUsername(followingEntries)
      kept == SelectSeq(followingRows,
                        LAMBDA row : ~\E i \in DOMAIN row.candidates : row.candidates[i] \in lookup)
  IN [i \in DOMAIN kept |-> kept[i].username]

\* Export records to run main's computation on.
MaxFollowers == 2
MaxFollowing == 2

absolute(path) == [form |-> "absolute", host |-> "www.instagram.com", path |-> path]

FollowerEntries ==
  { [title |-> <<"a">>, value |-> <<>>, href |-> NoHref, timestamp |-> 1],
    [title |-> <<"a", "!">>, value |-> <<"c">>, href |-> NoHref, timestamp |-> 1],
    [title |-> <<>>, value |-> <<>>, href |-> absolute(<<marker, <<"b">>>>), timestamp |-> 1],
    [title |-> <<" ", "@", "B", " ">>, value |-> <<"a", "!">>, href |-> NoHref, timestamp |-> 1],
    [title |-> <<"?">>, value |-> <<>>, href |-> NoHref, timestamp |-> 1] }

FollowingEntries ==
  { [title |-> <<"a">>, value |-> <<>>, href |-> NoHref, timestamp |-> 1],
    [title |-> <<"a">>, value |-> <<>>, href |-> NoHref, timestamp |-> 2],
    [title |-> <<"a">>, value |-> <<"c">>, href |-> NoHref, timestamp |-> 2],
    [title |-> <<"a">>, value |-> <<>>, href |-> absolute(<<marker, <<"b">>>>), timestamp |-> 1],
    [title |-> <<"@", "B">>, value |-> <<>>, href |-> NoHref, timestamp |-> 1],
    [title |-> <<"@", "B">>, value |-> <<"c">>, href |-> NoHref, timestamp |-> 2],
    [title |-> <<>>, value |-> <<"c">>, href |-> NoHref, timestamp |-> 1],
    [title |-> <<>>, value |-> <<>>, href |-> absolute(<<marker, <<"b">>>>), timestamp |-> 2],
    [title |-> <<"a", "!">>, value |-> <<"c">>, href |-> NoHref, timestamp |-> 1],
    [title |-> <<>>, value |-> <<>>, href |-> NoHref, timestamp |-> 2] }

SeqsUpTo(S, n) == UNION {[1..k -> S] : k \in 0..n}

InitFlagged ==
  /\ Parked
  /\ \E f \in SeqsUpTo(FollowerEntries, MaxFollowers),
        g \in SeqsUpTo(FollowingEntries, MaxFollowing) :
       arg = [fn |-> "notFollowingBackAll", followers |-> f, following |-> g]
  /\ res = NoCall

callNotFollowingBackAll ==
  /\ arg.fn = "notFollowingBackAll"
  /\ res = NoCall
  /\ res' = [fn |-> "notFollowingBackAll",
             value |-> notFollowingBackAll(arg.followers, arg.following)]
  /\ UNCHANGED <<callVars, arg>>

NextFlagged == callNotFollowingBackAll

SpecFlagged == InitFlagged /\ [][NextFlagged]_vars

\* Object.fromEntries over the rows: the timestamp kept for each username.
followedAtByUsername(followingRows) ==
  [u \in {followingRows[i].username : i \in DOMAIN followingRows} |->
     followingRows[CHOOSE i \in DOMAIN followingRows :
                     /\ followingRows[i].username = u
                     /\ \A j \in DOMAIN followingRows :
                          followingRows[j].username = u => j <= i].timestamp]

\* main's rows on every list of following records.
RowsCalls ==
  {[fn |-> "followingRows", following |-> g] : g \in SeqsUpTo(FollowingEntries, MaxFollowing)}

InitRows ==
  /\ Parked
  /\ arg \in RowsCalls
  /\ res = NoCall

callFollowingRows ==
  /\ arg.fn = "followingRows"
  /\ res = NoCall
  /\ LET followingRows == followingRowsByUsername(arg.following)
     IN res' = [fn |-> "followingRows",
                value |-> [rows |-> followingRows,
                           followedAt |-> followedAtByUsername(followingRows)]]
  /\ UNCHANGED <<callVars, arg>>

NextRows == callFollowingRows

SpecRows == InitRows /\ [][NextRows]_vars

\* The two lookups main hands to renderResults for the verification box.
verifyLookups(followerEntries, followingEntries) ==
  LET followingRows == followingRowsByUsername(followingEntries)
  IN [following |-> {followingRows[i].username : i \in DOMAIN followingRows},
      followers |-> followerLookup(followerEntries)]

\* The verdict renderResults shows for the text of the verification box.
verifyResultText(verifyQuery, lookups, flaggedSet) ==
  LET verifyInputNorm == norm(verifyQuery)
  IN IF verifyInputNorm = <<>> THEN "none"
     ELSE IF verifyInputNorm \notin lookups.following THEN "not in following"
     ELSE IF verifyInputNorm \in lookups.followers THEN "in both files"
     ELSE IF verifyInputNorm \in flaggedSet THEN "flagged"
     ELSE "not displayed"

\* The verification box on the lists main computes from the export records.
VerifyFollowers == 1
VerifyFollowing == 2

VerifyQueries ==
  {<<>>, <<"a">>, <<"@", "B">>, <<" ", "c", " ">>, <<"a", "!">>, <<"d">>}

InitVerify ==
  /\ Parked
  /\ \E f \in SeqsUpTo(FollowerEntries, VerifyFollowers),
        g \in SeqsUpTo(FollowingEntries, VerifyFollowing),
        q \in VerifyQueries :
       arg = [fn |-> "verify", followers |-> f, following |-> g, verifyQuery |-> q]
  /\ res = NoCall

callVerify ==
  /\ arg.fn = "verify"
  /\ res = NoCall
  /\ LET flagged == notFollowingBackAll(arg.followers, arg.following)
     IN res' = [fn |-> "verify",
                value |-> [all |-> flagged,
                           text |-> verifyResultText(arg.verifyQuery,
                                                     verifyLookups(arg.followers, arg.following),
                                                     Range(flagged))]]
  /\ UNCHANGED <<callVars, arg>>

NextVerify == callVerify

SpecVerify == InitVerify /\ [][NextVerify]_vars

\* parseUsernameFromHref on hrefs of every form.
MaxSegments == 2

HrefPieces == {<<>>, marker, <<"b">>, <<"c">>}

Hrefs ==
  {NoHref} \cup
  [form : {"absolute", "relative"},
   host : {"www.instagram.com", "example.com"},
   path : SeqsUpTo(HrefPieces, MaxSegments)]

HrefCalls == {[fn |-> "parseUsernameFromHref", href |-> h] : h \in Hrefs}

InitHref ==
  /\ Parked
  /\ arg \in HrefCalls
  /\ res = NoCall

callParseUsernameFromHref ==
  /\ arg.fn = "parseUsernameFromHref"
  /\ res = NoCall
  /\ res' = [fn |-> "parseUsernameFromHref", value |-> parseUsernameFromHref(arg.href)]
  /\ UNCHANGED <<callVars, arg>>

NextHref == callParseUsernameFromHref

SpecHref == InitHref /\ [][NextHref]_vars

\* extractUsername and extractCandidateUsernames on single records.
EntryTitles == {<<>>, <<" ">>, <<"a">>, <<"a", "!">>, <<"@", "B">>}

EntryValues == {<<>>, <<" ">>, <<"B", "o", "b", "_", "2">>, <<"c", "!">>}

EntryHrefs == {NoHref, absolute(<< <<"b">> >>), absolute(<< <<"D", "!">> >>)}

EntryCalls ==
  {[fn |-> "extractUsername",
    entry |-> [title |-> t, value |-> v, href |-> h, timestamp |-> 1]] :
     t \in EntryTitles, v \in EntryValues, h \in EntryHrefs}

InitEntry ==
  /\ Parked
  /\ arg \in EntryCalls
  /\ res = NoCall

callExtractUsername ==
  /\ arg.fn = "extractUsername"
  /\ res = NoCall
  /\ res' = [fn |-> "extractUsername",
             value |-> [primary |-> extractUsername(arg.entry),
                        candidates |-> extractCandidateUsernames(arg.entry)]]
  /\ UNCHANGED <<callVars, arg>>

NextEntry == callExtractUsername

SpecEntry == InitEntry /\ [][NextEntry]_vars

\* norm on every pattern-valid username up to a length, plain and written with
\* a leading "@" in upper case.
MaxNameLen == 2

toUpperCase(s) ==
  [i \in DOMAIN s |->
     IF \E k \in DOMAIN LowerChars : LowerChars[k] = s[i]
     THEN UpperChars[CHOOSE k \in DOMAIN LowerChars : LowerChars[k] = s[i]]
     ELSE s[i]]

ValidNames == UNION {[1..k -> UsernameChars] : k \in 1..MaxNameLen}

NormCalls ==
  {[fn |-> "norm", u |-> u, decorated |-> <<"@">> \o toUpperCase(u)] : u \in ValidNames}

InitNorm ==
  /\ Parked
  /\ arg \in NormCalls
  /\ res = NoCall

callNorm ==
  /\ arg.fn = "norm"
  /\ res = NoCall
  /\ res' = [fn |-> "norm",
             value |-> [plain |-> norm(arg.u), decorated |-> norm(arg.decorated)]]
  /\ UNCHANGED <<callVars, arg>>

NextNorm == callNorm

SpecNorm == InitNorm /\ [][NextNorm]_vars

----------------------------------------------------------------------------
(* The loaders on whatever text a key of localStorage holds *)

\* A JSON value: null, a boolean (n is 1 for true), a number n, a string s (of
\* kind "numstr" when its text is the numeric literal n), an array or an object.
JNull == [t |-> "null", n |-> 0, s |-> "", items |-> <<>>]
JBool(b) == [t |-> "bool", n |-> IF b THEN 1 ELSE 0, s |-> "", items |-> <<>>]
JNum(n) == [t |-> "num", n |-> n, s |-> "", items |-> <<>>]
JStr(s) == [t |-> "str", n |-> 0, s |-> s, items |-> <<>>]
JNumStr(n) == [t |-> "numstr", n |-> n, s |-> "", items |-> <<>>]
JArr(items) == [t |-> "arr", n |-> 0, s |-> "", items |-> items]
JObj == [t |-> "obj", n |-> 0, s |-> "", items |-> <<>>]

\* What getItem returns: null for a missing key, or a text: the empty text, a
\* text that is no JSON and no number ("{oops", or a bare word such as risk), a
\* number written as JSON does not allow but Number() reads ("+5"), or JSON.
Absent == [form |-> "absent", word |-> "", value |-> JNull]
EmptyText == [form |-> "empty", word |-> "", value |-> JNull]
Word(w) == [form |-> "word", word |-> w, value |-> JNull]
Signed(n) == [form |-> "signed", word |-> "", value |-> JNum(n)]
Json(v) == [form |-> "json", word |-> "", value |-> v]

\* raw is truthy
truthy(item) == item.form \notin {"absent", "empty"}

\* JSON.parse(raw) returns (a SyntaxError is thrown otherwise)
parses(item) == item.form = "json"

NaN == [finite |-> FALSE, n |-> 0]
Finite(n) == [finite |-> TRUE, n |-> n]

\* Number(v) of an element of a parsed array.
NumberOfValue(v) ==
  IF v.t \in {"null"} THEN Finite(0)
  ELSE IF v.t \in {"bool", "num", "numstr"} THEN Finite(v.n)
  ELSE NaN

\* Number(raw || 0) of a stored text.
NumberOfItem(item) ==
  IF ~truthy(item) THEN Finite(0)
  ELSE IF item.form = "signed" THEN Finite(item.value.n)
  ELSE IF item.form = "json" /\ item.value.t = "num" THEN Finite(item.value.n)
  ELSE NaN

\* What a loader does: it returns a value or throws.
Returns(v) == [threw |-> FALSE, value |-> v]
Throws == [threw |-> TRUE, value |-> {}]

\* Variant of loadSet: no try around JSON.parse.
loadSetNoCatch(item) ==
  IF truthy(item) /\ ~parses(item)
  THEN Throws
  ELSE LET arr == IF truthy(item) THEN item.value ELSE JArr(<<>>)
       IN Returns(IF arr.t = "arr" THEN Range(arr.items) ELSE {})

loadSet(item) ==
  IF truthy(item) /\ ~parses(item)
  THEN Returns({})
  ELSE LET arr == IF truthy(item) THEN item.value ELSE JArr(<<>>)
       IN Returns(IF arr.t = "arr" THEN Range(arr.items) ELSE {})

\* loadUnfollowEvents from the stored text (loadUnfollowEvents above is its
\* filter on an array of numbers).
loadUnfollowEventsItem(item) ==
  IF truthy(item) /\ ~parses(item)
  THEN Returns(<<>>)
  ELSE LET arr == IF truthy(item) THEN item.value ELSE JArr(<<>>)
           nums == [i \in DOMAIN arr.items |-> NumberOfValue(arr.items[i])]
           finite == SelectSeq(nums, LAMBDA x : x.finite)
       IN Returns(IF arr.t = "arr"
                  THEN loadUnfollowEvents([i \in DOMAIN finite |-> finite[i].n])
                  ELSE <<>>)

loadSafetyMode(item) ==
  Returns(IF item.form = "word" /\ item.word = "risk" THEN "risk" ELSE "strict")

loadStrictCooldownUntil(item) ==
  LET raw == NumberOfItem(item)
  IN Returns(IF raw.finite THEN raw.n ELSE 0)

\* The stored texts the loaders are run on.
MaxItems == 2

JElements == {JStr("u1"), JNum(5), JNumStr(7), JBool(TRUE), JNull, JObj}

StoredItems ==
  {Absent, EmptyText, Word("{oops"), Word("risk"), Word("strict"), Signed(5)}
    \cup {Json(v) : v \in {JNull, JBool(TRUE), JNum(0), JNum(5), JStr("risk"), JStr("u1"), JObj}}
    \cup {Json(JArr(a)) : a \in SeqsUpTo(JElements, MaxItems)}

Loaders == {"loadSet", "loadUnfollowEvents", "loadSafetyMode", "loadStrictCooldownUntil"}

LoadCalls == {[fn |-> f, item |-> i] : f \in Loaders, i \in StoredItems}

InitLoad ==
  /\ Parked
  /\ arg \in LoadCalls
  /\ res = NoCall

callLoader ==
  /\ arg.fn \in Loaders
  /\ res = NoCall
  /\ res' = [fn |-> arg.fn,
             value |-> CASE arg.fn = "loadSet" -> loadSet(arg.item)
                         [] arg.fn = "loadUnfollowEvents" -> loadUnfollowEventsItem(arg.item)
                         [] arg.fn = "loadSafetyMode" -> loadSafetyMode(arg.item)
                         [] arg.fn = "loadStrictCooldownUntil" -> loadStrictCooldownUntil(arg.item)]
  /\ UNCHANGED <<callVars, arg>>

NextLoad == callLoader

SpecLoad == InitLoad /\ [][NextLoad]_vars

\* The two export documents as res.json() returns them: any JSON value. An
\* object is modelled by what it holds under the two known keys; a member is
\* absent, an array of records, or some other value.
ExportKeys == {"relationships_followers", "relationships_following"}

MaxDocEntries == 2

DocEntries ==
  { [title |-> <<"a">>, value |-> <<>>, href |-> NoHref, timestamp |-> 1],
    [title |-> <<"a", "!">>, value |-> <<>>, href |-> NoHref, timestamp |-> 1],
    [title |-> <<>>, value |-> <<>>, href |-> NoHref, timestamp |-> 0] }

NoMembers == [k \in ExportKeys |-> [t |-> "absent", items |-> <<>>]]

DocScalar(t) == [t |-> t, items |-> <<>>, members |-> NoMembers]

DocArray(items) == [t |-> "array", items |-> items, members |-> NoMembers]

DocObject(key, member) ==
  [t |-> "object", items |-> <<>>, members |-> [NoMembers EXCEPT ![key] = member]]

Members ==
  {[t |-> t, items |-> <<>>] : t \in {"absent", "null", "string", "object"}}
    \cup {[t |-> "array", items |-> e] : e \in SeqsUpTo(DocEntries, MaxDocEntries)}

Documents ==
  {DocScalar(t) : t \in {"null", "number", "string", "boolean"}}
    \cup {DocArray(e) : e \in SeqsUpTo(DocEntries, MaxDocEntries)}
    \cup {DocObject(k, m) : k \in ExportKeys, m \in Members}

\* Variant of extractEntries: the member is read without the optional chaining,
\* which throws a TypeError on null.
extractEntriesNoOptional(data, key) ==
  IF data.t = "array" THEN Returns(data.items)
  ELSE IF data.t = "null" THEN Throws
  ELSE IF data.members[key].t = "array" THEN Returns(data.members[key].items)
  ELSE Returns(<<>>)

extractEntries(data, key) ==
  IF data.t = "array" THEN Returns(data.items)
  ELSE IF data.members[key].t = "array" THEN Returns(data.members[key].items)
  ELSE Returns(<<>>)

\* The loop of parseUsernames: the three counters and the names it keeps.
RECURSIVE parseUsernamesLoop(_, _)
parseUsernamesLoop(entries, acc) ==
  IF entries = <<>>
  THEN acc
  ELSE LET username == extractUsername(Head(entries))
           counted == [acc EXCEPT !.total = @ + 1]
       IN parseUsernamesLoop(
            Tail(entries),
            IF username = <<>> THEN counted
            ELSE IF ~isValidUsername(username)
            THEN [counted EXCEPT !.parsed = @ + 1, !.invalid = @ + 1]
            ELSE [counted EXCEPT !.parsed = @ + 1, !.raw = Append(@, username)])

\* Variant of parseUsernames: unique is the length of the list before unique().
parseUsernamesRawLength(entries, label) ==
  LET loop == parseUsernamesLoop(entries, [total |-> 0, parsed |-> 0, invalid |-> 0,
                                           raw |-> <<>>])
  IN [usernames |-> unique(loop.raw),
      stats |-> [label |-> label,
                 total |-> loop.total,
                 parsed |-> loop.parsed,
                 invalid |-> loop.invalid,
                 unique |-> Len(loop.raw)]]

parseUsernames(entries, label) ==
  LET loop == parseUsernamesLoop(entries, [total |-> 0, parsed |-> 0, invalid |-> 0,
                                           raw |-> <<>>])
      usernames == unique(loop.raw)
  IN [usernames |-> usernames,
      stats |-> [label |-> label,
                 total |-> loop.total,
                 parsed |-> loop.parsed,
                 invalid |-> loop.invalid,
                 unique |-> Len(usernames)]]

\* main from the two loaded documents to the flagged list: what the try block
\* computes before it reads the stored state, or the error the catch reports.
parseExports(followersData, followingData) ==
  LET followerEntries == extractEntries(followersData, "relationships_followers")
      followingEntries == extractEntries(followingData, "relationships_following")
  IN IF followerEntries.threw \/ followingEntries.threw
     THEN Throws
     ELSE Returns([followers |-> parseUsernames(followerEntries.value, "followers").stats,
                   following |-> parseUsernames(followingEntries.value, "following").stats,
                   notFollowingBackAll |->
                     notFollowingBackAll(followerEntries.value, followingEntries.value)])

ExportCalls ==
  {[fn |-> "parseExports", followersData |-> a, followingData |-> b] :
     a \in Documents, b \in Documents}

InitExports ==
  /\ Parked
  /\ arg \in ExportCalls
  /\ res = NoCall

callParseExports ==
  /\ arg.fn = "parseExports"
  /\ res = NoCall
  /\ res' = [fn |-> "parseExports",
             value |-> parseExports(arg.followersData, arg.followingData)]
  /\ UNCHANGED <<callVars, arg>>

NextExports == callParseExports

SpecExports == InitExports /\ [][NextExports]_vars

\* parseUsernames on lists of records: the follower records above (two of them
\* invalid, two with the same primary name) and one record that yields no name.
MaxParseEntries == 4

ParseEntries ==
  FollowerEntries
    \cup {[title |-> <<>>, value |-> <<" ">>, href |-> NoHref, timestamp |-> 1]}

InitParse ==
  /\ Parked
  /\ \E e \in SeqsUpTo(ParseEntries, MaxParseEntries) :
       arg = [fn |-> "parseUsernames", entries |-> e]
  /\ res = NoCall

callParseUsernames ==
  /\ arg.fn = "parseUsernames"
  /\ res = NoCall
  /\ res' = [fn |-> "parseUsernames", value |-> parseUsernames(arg.entries, "followers")]
  /\ UNCHANGED <<callVars, arg>>

NextParse == callParseUsernames

SpecParse == InitParse /\ [][NextParse]_vars

----------------------------------------------------------------------------
(* Properties *)

\* What the gate reads at the present moment: the stored log, loaded and pruned.
storedEvents == pruneUnfollowEvents(loadUnfollowEvents(ls.events), now)

\* The last step was a mark-done commit.
JustCommitted == Idle /\ Len(hist) > 0 /\ hist[Len(hist)] = now

\* A step of markDoneRequest(u) that ended in the refusal / in the deferred commit.
Refused(u) ==
  ui'.rateNotice.blocked /\ ~(\E cb \in waiting' : cb.kind = "commit" /\ cb.user = u)

Admitted(u) == \E cb \in waiting' : cb.kind = "commit" /\ cb.user = u

Disjoint3(U, T, P) == U \cap T = {} /\ U \cap P = {} /\ T \cap P = {}

pendingAll == {u \in all : u \notin unfollowedSet /\ u \notin tbdSet /\ u \notin pnfSet}

\* C1: in a session that has been in strict mode since the event log was empty,
\* the persisted log never holds more than 10 timestamps in the 90 minutes ending
\* now nor more than 60 in the 24 hours ending now; in particular right after
\* every commit, however checks and deferred commits interleave.
C1_PersistedLogWithinLimits ==
  strictSession =>
    /\ getRateState(loadUnfollowEvents(ls.events), now).used90 <= LIMIT_90_MIN
    /\ getRateState(loadUnfollowEvents(ls.events), now).used24 <= LIMIT_24_HOUR

\* Two overlapping commits have just run on a log of nine: eleven commits made,
\* ten timestamps in the window.
C1_Witness ==
  /\ strictSession
  /\ JustCommitted
  /\ Len(hist) > LIMIT_90_MIN
  /\ ui.unfollowEvents = storedEvents
  /\ getRateState(loadUnfollowEvents(ls.events), now).used90 = LIMIT_90_MIN

\* C2 as stated: in a strict session without reset, once exactly 10 commits have
\* been made within 90 minutes, and until 90 minutes after the tenth, the stored
\* cooldown is the time of the tenth commit plus 90 minutes and a mark-done
\* request is refused.
C2_TenCommitsLock ==
  ( /\ strictSession /\ ~resetSeen /\ Idle
    /\ Len(hist) = LIMIT_90_MIN
    /\ hist[LIMIT_90_MIN] - hist[1] <= WINDOW_90_MIN_MS
    /\ now < hist[LIMIT_90_MIN] + WINDOW_90_MIN_MS )
  => ( /\ ls.cooldown = hist[LIMIT_90_MIN] + WINDOW_90_MIN_MS
       /\ gateRefuses("strict", storedEvents, ls.cooldown, now) )

\* C3: a strict-mode mark-done request made while now < cooldownUntil is refused
\* whatever the window counts are, and one that is refused at now >= cooldownUntil
\* is refused by a full window, not by the cooldown.
C3_CooldownOverridesWindows ==
  [][\A u \in Users :
       (markDoneRequest(u) /\ ui.safetyMode = "strict") =>
         /\ (now < ls.cooldown => Refused(u))
         /\ ((now >= ls.cooldown /\ Refused(u)) => ~getRateState(storedEvents, now).canUnfollow)
         /\ ((now >= ls.cooldown /\ getRateState(storedEvents, now).canUnfollow) => Admitted(u))]_vars

\* A refusal just made, by the cooldown alone: both windows are under their limits.
C3_Witness ==
  /\ Idle
  /\ ui.safetyMode = "strict"
  /\ ui.rateNotice.blocked
  /\ now < ls.cooldown
  /\ ui.rateNotice.mins = msToShort(ls.cooldown - now)
  /\ getRateState(storedEvents, now).canUnfollow

\* C4: no step other than the load takes done, tbd and not-found from pairwise
\* disjoint to overlapping, the deferred callbacks of several moves included.
C4_CategoriesStayDisjoint ==
  [][(phase = "ready" /\ Disjoint3(unfollowedSet, tbdSet, pnfSet)
        /\ ~(\E ok \in BOOLEAN : main(ok)))
       => Disjoint3(unfollowedSet', tbdSet', pnfSet')]_vars

\* Two moves of one frame: the first has run, the second is about to.
C4_Witness ==
  /\ phase = "ready"
  /\ tbdSet = {"u1"}
  /\ Disjoint3(unfollowedSet, tbdSet, pnfSet)
  /\ \E cb \in queued : cb.kind = "to-pnf" /\ cb.user = "u1"

\* C5: after load every pinned username is flagged and in none of done, tbd,
\* not-found.
C5_PinnedWithinPending ==
  phase = "ready" => pinnedSet \subseteq pendingAll

\* A pinned user whose move out of pending is about to run.
C5_Witness ==
  /\ phase = "ready"
  /\ "u1" \in pinnedSet
  /\ \E cb \in queued : cb.kind \in {"to-tbd", "to-pnf", "commit"} /\ cb.user = "u1"

\* C6 as stated: the persisted log holds one timestamp for every commit made (of
\* those not older than 24 hours): none is overwritten or lost.
C6_OneEventPerCommit ==
  Idle => storedEvents = pruneUnfollowEvents(hist, now)

\* C7 as stated: from the gate check of a request to its commit nothing else
\* changes the persisted state: while the commit is pending, the only step that
\* writes localStorage is that commit (short of the page being loaded anew).
C7_CheckAndCommitAtomic ==
  [][\A cb \in waiting \cup queued :
       cb.kind = "commit" =>
         \/ \E ok \in BOOLEAN : main(ok)
         \/ ls' = ls
         \/ cb \in queued /\ cb \notin queued']_vars

\* C8: a mark-done request in risk mode is never refused: its commit is set up
\* and no wait is shown, whatever the log and the cooldown hold.
C8_RiskNeverRefused ==
  [][\A u \in Users :
       (markDoneRequest(u) /\ ui.safetyMode = "risk") =>
         (Admitted(u) /\ ~ui'.rateNotice.blocked)]_vars

\* A request admitted in risk mode that strict mode would have refused.
C8_Witness ==
  /\ Idle
  /\ ui.safetyMode = "risk"
  /\ ~ui.rateNotice.blocked
  /\ \E cb \in waiting : cb.kind = "commit"
  /\ gateRefuses("strict", storedEvents, ls.cooldown, now)

\* C9 as stated: in risk mode every row that is not done offers the checkbox.
C9_RiskOffersCheckbox ==
  (phase = "ready" /\ ui.safetyMode = "risk") =>
    \A u \in all : ui.rows[u].type # "done" => ui.rows[u].control = "checkbox"

\* C10: a strict-mode commit sets the cooldown to its own time plus 90 minutes
\* exactly when it brings used90 to 10, and leaves it as it was otherwise.
C10_CooldownOnTenth ==
  [][\A cb \in queued :
       (commitChecked(cb) /\ bat.safetyMode = "strict") =>
         ls'.cooldown = IF getRateState(ls'.events, now).used90 = LIMIT_90_MIN
                        THEN now + WINDOW_90_MIN_MS
                        ELSE ls.cooldown]_vars

\* The tenth event of the window has just been committed in strict mode.
C10_Witness ==
  /\ JustCommitted
  /\ ui.safetyMode = "strict"
  /\ getRateState(storedEvents, now).used90 = LIMIT_90_MIN
  /\ ls.cooldown = now + WINDOW_90_MIN_MS
  /\ ui.unfollowEvents = storedEvents

\* C11: a strict-mode mark-done request that is refused changes none of done,
\* tbd, not-found, pinned, visited (in memory or stored), leaves the cooldown and
\* the mode as they were, sets up no commit, and changes the stored log at most by
\* dropping the entries older than 24 hours.
C11_RefusalMutatesNothing ==
  [][\A u \in Users :
       (markDoneRequest(u) /\ ui.safetyMode = "strict" /\ Refused(u)) =>
         /\ UNCHANGED <<unfollowedSet, tbdSet, pnfSet, pinnedSet, visitedSet, hist>>
         /\ waiting' = {}
         /\ ls' = [ls EXCEPT !.events = InWindow(loadUnfollowEvents(ls.events), now,
                                                   WINDOW_24_HOUR_MS)]]_vars

\* A refusal just made in a tab that has already marked a user done.
C11_Witness ==
  /\ Idle
  /\ ui.safetyMode = "strict"
  /\ ui.rateNotice.blocked
  /\ unfollowedSet # {}
  /\ gateRefuses("strict", storedEvents, ls.cooldown, now)
  /\ ui.rateNotice.mins = blockedMsg(storedEvents, ls.cooldown, now).mins

\* The frame of the moves and of the uncheck: cooldown and mode stay, and the
\* stored log keeps every entry that is not older than 24 hours.
LogAndCooldownKept ==
  /\ ls'.cooldown = ls.cooldown
  /\ ls'.mode = ls.mode
  /\ InWindow(loadUnfollowEvents(ls'.events), now', WINDOW_24_HOUR_MS)
       = InWindow(loadUnfollowEvents(ls.events), now, WINDOW_24_HOUR_MS)
  /\ hist' = hist

\* C12: whatever the mode, the cooldown and the windows, every row that is not
\* done offers its moves and every done row its checkbox; a move or an uncheck
\* that runs puts the user in the category asked for, and leaves the cooldown
\* and the log as they were, up to the pruning of entries older than 24 hours.
C12_MovesUnconditional ==
  [][/\ Idle =>
          \A u \in all :
            /\ ui.rows[u].type = "pending" =>
                 hasButton(ui.rows[u], "to-tbd") /\ hasButton(ui.rows[u], "to-pnf")
            /\ ui.rows[u].type = "tbd" =>
                 hasButton(ui.rows[u], "to-pending") /\ hasButton(ui.rows[u], "to-pnf")
            /\ ui.rows[u].type = "pnf" => hasButton(ui.rows[u], "to-pending")
            /\ ui.rows[u].type = "done" => ui.rows[u].control = "checkbox"
     /\ \A cb \in queued :
          moveDone(cb) =>
            /\ LogAndCooldownKept
            /\ cb.kind = "to-tbd" =>
                 cb.user \in tbdSet' /\ cb.user \notin unfollowedSet' \cup pnfSet'
            /\ cb.kind = "to-pnf" =>
                 cb.user \in pnfSet' /\ cb.user \notin unfollowedSet' \cup tbdSet'
            /\ cb.kind = "to-pending" =>
                 cb.user \notin unfollowedSet' \cup tbdSet' \cup pnfSet'
            /\ ls'.unfollowed = unfollowedSet' /\ ls'.tbd = tbdSet' /\ ls'.pnf = pnfSet'
     /\ \A u \in all :
          uncheck(u) =>
            /\ LogAndCooldownKept
            /\ u \notin unfollowedSet' /\ ls'.unfollowed = unfollowedSet']_vars

\* A move has been applied while the lists are locked.
C12_Witness ==
  /\ Idle
  /\ ui.lockBanner
  /\ tbdSet = {"u1"}
  /\ ls.tbd = {"u1"}

\* C12 as stated: a move or an uncheck leaves the stored log exactly as it was.
C12_LogUntouched ==
  [][/\ \A cb \in queued : moveDone(cb) => ls'.events = ls.events
     /\ \A u \in all : uncheck(u) => ls'.events = ls.events]_vars

\* The number of events of e that are at most w old at time t.
CountWithin(e, t, w) == Cardinality({i \in DOMAIN e : t - e[i] <= w})

\* C13: getRateState returns the counts of the events with now - ts <= 90 min and
\* now - ts <= 24 h (an event exactly as old as the window counted), remaining90 =
\* max(0, 10 - used90), remaining24 = max(0, 60 - used24), and canUnfollow exactly
\* when used90 < 10 and used24 < 60.
C13_RateStateCounts ==
  res.fn = "getRateState" =>
    LET c90 == CountWithin(arg.events, arg.now, WINDOW_90_MIN_MS)
        c24 == CountWithin(arg.events, arg.now, WINDOW_24_HOUR_MS)
        v == res.value
    IN /\ v.used90 = c90
       /\ v.used24 = c24
       /\ v.remaining90 = (IF c90 >= LIMIT_90_MIN THEN 0 ELSE LIMIT_90_MIN - c90)
       /\ v.remaining24 = (IF c24 >= LIMIT_24_HOUR THEN 0 ELSE LIMIT_24_HOUR - c24)
       /\ v.canUnfollow = (c90 < LIMIT_90_MIN /\ c24 < LIMIT_24_HOUR)

\* The tenth event of the window is exactly 90 minutes old, and it blocks.
C13_Witness ==
  /\ res.fn = "getRateState"
  /\ \E i \in DOMAIN arg.events : arg.now - arg.events[i] = WINDOW_90_MIN_MS
  /\ res.value.used90 = LIMIT_90_MIN
  /\ res.value.used24 = LIMIT_90_MIN
  /\ ~res.value.canUnfollow

\* C14 as stated: blocked by the 90 minute window, the oldest event of recent90
\* is out of that window at now + wait90; blocked by the 24 hour window only,
\* the oldest of recent24 is out of it at now + wait24; not blocked, both waits
\* are 0.
C14_WaitUntilAgedOut ==
  res.fn = "getRateState" =>
    LET v == res.value
        recent90 == InWindow(arg.events, arg.now, WINDOW_90_MIN_MS)
        recent24 == InWindow(arg.events, arg.now, WINDOW_24_HOUR_MS)
    IN /\ v.used90 >= LIMIT_90_MIN =>
            ~((arg.now + v.wait90) - MinOf(recent90) <= WINDOW_90_MIN_MS)
       /\ (v.used90 < LIMIT_90_MIN /\ v.used24 >= LIMIT_24_HOUR) =>
            ~((arg.now + v.wait24) - MinOf(recent24) <= WINDOW_24_HOUR_MS)
       /\ v.canUnfollow => (v.wait90 = 0 /\ v.wait24 = 0)

\* C15: whatever the flagged set and the three sets hold, every flagged username
\* is in exactly one of the four lists (the one its row is rendered in), and the
\* pending list is the flagged usernames that are in none of the three sets.
C15_OneCategoryEach ==
  res.fn = "categoryLists" =>
    LET v == res.value
    IN /\ \A u \in arg.all :
            /\ Cardinality({c \in {"pending", "tbd", "pnf", "done"} : u \in v[c]}) = 1
            /\ u \in v[rowType(u, arg.U, arg.T, arg.P)]
       /\ v.pending \cup v.tbd \cup v.pnf \cup v.done = arg.all
       /\ v.pending = arg.all \ (arg.U \cup arg.T \cup arg.P)

\* A flagged username that is in all three sets at once is listed as done only.
C15_Witness ==
  /\ res.fn = "categoryLists"
  /\ "u1" \in arg.all \cap arg.U \cap arg.T \cap arg.P
  /\ "u2" \in (arg.all \cap arg.T \cap arg.P) \ arg.U
  /\ res.value.done = {"u1"}
  /\ res.value.pnf = {"u2"}

\* C16: once main has reconciled, and in every later state of the session, done,
\* tbd, not-found, visited and pinned hold flagged usernames only, in memory and
\* in the store, whatever the store held before the load.
C16_SetsWithinFlagged ==
  phase = "ready" =>
    /\ unfollowedSet \cup tbdSet \cup pnfSet \cup visitedSet \cup pinnedSet \subseteq all
    /\ ls.unfollowed \cup ls.tbd \cup ls.pnf \cup ls.visited \cup ls.pinned \subseteq all

\* The store held the unflagged u2 as visited and pinned, and u1 as done, tbd and
\* pinned: after the load u1 is done only and u2 is gone.
C16_Witness ==
  /\ phase = "ready"
  /\ hist = <<>>
  /\ ~resetSeen
  /\ unfollowedSet = {"u1"}
  /\ ls.unfollowed = {"u1"}
  /\ ls.tbd = {} /\ ls.visited = {} /\ ls.pinned = {}

\* C17: the sets that the reconciliation loops produce are pairwise disjoint,
\* whatever the three stored sets held.
C17_ReconciledDisjoint ==
  res.fn = "reconcile" => Disjoint3(res.value.U, res.value.T, res.value.P)

\* The five sets as a store, to reconcile them again.
asStore(r) ==
  [unfollowed |-> r.U, tbd |-> r.T, pnf |-> r.P, visited |-> r.V, pinned |-> r.PIN]

\* C18: reconciling the reconciled sets again with the same flagged set changes
\* none of the five sets.
C18_ReconcileIdempotent ==
  res.fn = "reconcile" => reconcile(asStore(res.value), arg.all) = res.value

\* A first reconciliation that removed something from every one of the five sets.
C18_Witness ==
  /\ res.fn = "reconcile"
  /\ arg.all = {"u1"}
  /\ arg.store.unfollowed = {"u2"}
  /\ arg.store.tbd = {"u1", "u2"}
  /\ arg.store.pnf = {"u2"}
  /\ arg.store.visited = {"u1", "u2"}
  /\ arg.store.pinned = {"u1", "u2"}
  /\ res.value = [U |-> {}, T |-> {"u1"}, P |-> {}, V |-> {"u1"}, PIN |-> {}]

\* C19: a confirmed reset empties the five sets in memory and in the store, sets
\* the stored cooldown to 0 and renders every flagged username as pending; a
\* declined reset changes nothing.
C19_ResetClearsAll ==
  [][ /\ resetProgress(TRUE) =>
           /\ unfollowedSet' = {} /\ tbdSet' = {} /\ pnfSet' = {}
           /\ visitedSet' = {} /\ pinnedSet' = {}
           /\ ls'.unfollowed = {} /\ ls'.tbd = {} /\ ls'.pnf = {}
           /\ ls'.visited = {} /\ ls'.pinned = {}
           /\ ls'.cooldown = 0
           /\ \A u \in all : ui'.rows[u].type = "pending"
      /\ resetProgress(FALSE) => UNCHANGED vars ]_vars

\* A reset after the tenth commit of the window: the cooldown that commit set is
\* gone and the username it marked done is pending again.
C19_Witness ==
  /\ resetSeen
  /\ phase = "ready"
  /\ Len(hist) >= LIMIT_90_MIN
  /\ now < hist[Len(hist)] + WINDOW_90_MIN_MS
  /\ ls.cooldown = 0
  /\ unfollowedSet = {} /\ ls.unfollowed = {}
  /\ \A u \in all : ui.rows[u].type = "pending"

\* The pattern-valid candidates of a record, as a set.
candidateSet(entry) ==
  {u \in {norm(entry.title), norm(entry.value), norm(parseUsernameFromHref(entry.href))} :
     isValidUsername(u)}

\* The following record that is kept for a primary name: one with the greatest
\* timestamp among the records with that primary, the first of them in file order.
retained(entries, primary) ==
  entries[CHOOSE i \in DOMAIN entries :
            /\ extractUsername(entries[i]) = primary
            /\ \A j \in DOMAIN entries :
                 extractUsername(entries[j]) = primary =>
                   \/ entries[j].timestamp < entries[i].timestamp
                   \/ entries[j].timestamp = entries[i].timestamp /\ j >= i]

\* C20: the flagged set is the set of the pattern-valid primaries of the
\* following records whose retained record has no candidate among the
\* pattern-valid candidates of any follower record, records with an invalid
\* primary name included among the followers.
C20_FlaggedSet ==
  res.fn = "notFollowingBackAll" =>
    LET lookup == UNION {candidateSet(arg.followers[i]) : i \in DOMAIN arg.followers}
        primaries == {u \in {extractUsername(arg.following[i]) : i \in DOMAIN arg.following} :
                        isValidUsername(u)}
    IN Range(res.value) =
         {u \in primaries : candidateSet(retained(arg.following, u)) \cap lookup = {}}

\* The only follower record has the invalid primary "a!" and the candidate "c";
\* of the following records "b" with the second name "c" is not flagged and "a" is.
C20_Witness ==
  /\ res.fn = "notFollowingBackAll"
  /\ Len(arg.followers) = 1
  /\ ~isValidUsername(extractUsername(arg.followers[1]))
  /\ Len(arg.following) = 2
  /\ extractUsername(arg.following[1]) = <<"b">>
  /\ <<"c">> \in candidateSet(arg.following[1])
  /\ extractUsername(arg.following[2]) = <<"a">>
  /\ res.value = << <<"a">> >>

\* C21: a following record whose primary name is a candidate of some follower
\* record is not flagged, so that no flagged username is in the follower lookup.
C21_FollowersNeverFlagged ==
  res.fn = "notFollowingBackAll" =>
    LET lookup == UNION {candidateSet(arg.followers[i]) : i \in DOMAIN arg.followers}
    IN /\ \A i \in DOMAIN arg.following :
            extractUsername(arg.following[i]) \in lookup =>
              extractUsername(arg.following[i]) \notin Range(res.value)
       /\ Range(res.value) \cap lookup = {}

\* The follower record is named "a!" with the second name "c"; the following
\* record "c" matches it by that second name only and is not flagged, "a" is.
C21_Witness ==
  /\ res.fn = "notFollowingBackAll"
  /\ Len(arg.followers) = 1
  /\ extractUsername(arg.followers[1]) = <<"a", "!">>
  /\ Len(arg.following) = 2
  /\ extractUsername(arg.following[1]) = <<"c">>
  /\ extractUsername(arg.following[2]) = <<"a">>
  /\ candidateSet(arg.following[2]) = {<<"a">>}
  /\ res.value = << <<"a">> >>

\* The greatest timestamp among the records with a primary name.
latestOf(entries, primary) ==
  CHOOSE t \in {entries[i].timestamp : i \in DOMAIN entries} :
    /\ \E i \in DOMAIN entries : extractUsername(entries[i]) = primary /\ entries[i].timestamp = t
    /\ \A i \in DOMAIN entries : extractUsername(entries[i]) = primary => entries[i].timestamp <= t

\* C22: there is one row per pattern-valid primary name and none for an empty or
\* invalid one; the row of a primary carries the timestamp and the candidates of
\* the record with the greatest timestamp among the records with that primary
\* (the first in file order on a tie), and followedAtByUsername holds that
\* greatest timestamp.
C22_OneRowPerPrimary ==
  res.fn = "followingRows" =>
    LET rows == res.value.rows
        primaries == {u \in {extractUsername(arg.following[i]) : i \in DOMAIN arg.following} :
                        isValidUsername(u)}
    IN /\ \A i, j \in DOMAIN rows : rows[i].username = rows[j].username => i = j
       /\ {rows[i].username : i \in DOMAIN rows} = primaries
       /\ \A i \in DOMAIN rows :
            LET kept == retained(arg.following, rows[i].username)
            IN /\ rows[i].timestamp = kept.timestamp
               /\ rows[i].timestamp = latestOf(arg.following, rows[i].username)
               /\ Range(rows[i].candidates) = candidateSet(kept)
       /\ DOMAIN res.value.followedAt = primaries
       /\ \A u \in primaries : res.value.followedAt[u] = latestOf(arg.following, u)

\* Two records named "a" with the same timestamp, the second with the second
\* name "c": the one row kept has the candidates of the first.
C22_Witness ==
  /\ res.fn = "followingRows"
  /\ Len(arg.following) = 2
  /\ candidateSet(arg.following[1]) = {<<"a">>}
  /\ candidateSet(arg.following[2]) = {<<"a">>, <<"c">>}
  /\ arg.following[1].timestamp = arg.following[2].timestamp
  /\ Len(res.value.rows) = 1
  /\ res.value.rows[1].candidates = << <<"a">> >>

\* C23: when the verification finds a username flagged, the username is the
\* primary of a following record and no candidate of a follower record; the
\* verdict "in both files" is never shown for a flagged username, which always
\* gets the verdict "flagged".
C23_VerifyAgreesWithFlagged ==
  res.fn = "verify" =>
    LET u == norm(arg.verifyQuery)
        lookup == UNION {candidateSet(arg.followers[i]) : i \in DOMAIN arg.followers}
        primaries == {p \in {extractUsername(arg.following[i]) : i \in DOMAIN arg.following} :
                        isValidUsername(p)}
    IN /\ res.value.text = "flagged" => u \in primaries /\ u \notin lookup
       /\ res.value.text = "in both files" => u \notin Range(res.value.all)
       /\ u \in Range(res.value.all) => res.value.text = "flagged"

\* "@B" is verified: "b" is flagged, and the other following record "c" is a
\* follower by the second name of the record "a!".
C23_Witness ==
  /\ res.fn = "verify"
  /\ arg.verifyQuery = <<"@", "B">>
  /\ Len(arg.followers) = 1
  /\ candidateSet(arg.followers[1]) = {<<"c">>}
  /\ Len(arg.following) = 2
  /\ extractUsername(arg.following[1]) = <<"c">>
  /\ res.value.all = << <<"b">> >>
  /\ res.value.text = "flagged"

\* No stored event is older than 24 hours at the time of the step, and the
\* events of the log that was read which are exactly 24 hours old are stored.
prunedTo24h(readLog) ==
  /\ \A i \in DOMAIN ls'.events : now' - ls'.events[i] <= WINDOW_24_HOUR_MS
  /\ \A i \in DOMAIN readLog :
       now' - readLog[i] = WINDOW_24_HOUR_MS => readLog[i] \in Range(ls'.events)

\* C24: after the load in main, a mark-done request, a commit and a run of the
\* status ticker the stored log holds no event older than 24 hours at that time,
\* and holds the events of the log read that are exactly 24 hours old (a step
\* that leaves the log otherwise is none of these four).
C24_PrunedOnEveryRead ==
  [][ /\ \/ prunedTo24h(ls.events)
         \/ ~(main(TRUE) \/ (\E u \in Users : markDoneRequest(u)) \/ safetyTicker)
      /\ \A cb \in queued : prunedTo24h(cb.snap) \/ ~commitChecked(cb) ]_vars

\* A mark-done request admitted at the time of the load: main and the request
\* have both stored the event that is exactly 24 hours old.
C24_Witness ==
  /\ phase = "ready"
  /\ now = T0
  /\ \E cb \in waiting : cb.kind = "commit"
  /\ T0 - WINDOW_24_HOUR_MS \in Range(ls.events)
  /\ Len(ls.events) = 2

\* C25: when the load of an export file fails, main renders the error and no
\* list, and localStorage is left as it was: no set, log or cooldown is written.
C25_LoadFailureWritesNothing ==
  [][ \A okFollowers, okFollowing \in BOOLEAN :
        (~(okFollowers /\ okFollowing) /\ main(okFollowers /\ okFollowing)) =>
           /\ ls' = ls
           /\ phase' = "error"
           /\ ui'.rows = <<>>
           /\ waiting' = {} ]_vars

\* The page shows the error; the expired cooldown and the 59 events found in
\* localStorage, which a successful load would have cleared and saved, are as found.
C25_Witness ==
  /\ phase = "error"
  /\ ui.rows = <<>>
  /\ ls.cooldown > 0
  /\ ls.cooldown < now
  /\ ls.events = Log59

\* The positions of the path segments of a URL (the non-empty pieces of its path).
segmentsAt(href) == {i \in DOMAIN href.path : href.path[i] # <<>>}

firstOf(S) == CHOOSE i \in S : \A j \in S : i <= j

lastOf(S) == CHOOSE i \in S : \A j \in S : j <= i

\* C26 as amended: the name derived from a URL is its first path segment, or the
\* second one when the first is "_u" and a second exists; a URL without a path
\* segment, and a missing href, give none.
C26_FirstSegment ==
  (res.fn = "parseUsernameFromHref" /\ arg.href.form # "relative") =>
    LET S == segmentsAt(arg.href)
    IN IF S = {}
       THEN res.value = <<>>
       ELSE IF arg.href.path[firstOf(S)] = marker /\ S # {firstOf(S)}
       THEN res.value = arg.href.path[firstOf(S \ {firstOf(S)})]
       ELSE res.value = arg.href.path[firstOf(S)]

\* The URL has the path /b/c and the name derived from it is "b".
C26_Witness ==
  /\ res.fn = "parseUsernameFromHref"
  /\ arg.href.form = "absolute"
  /\ arg.href.path = << <<"b">>, <<"c">> >>
  /\ res.value = <<"b">>

\* C26 as stated: the name derived from a URL is its last path segment, or the
\* second one when the first is "_u"; a URL without a path segment gives none.
C26_LastSegment ==
  (res.fn = "parseUsernameFromHref" /\ arg.href.form = "absolute") =>
    LET S == segmentsAt(arg.href)
    IN IF S = {}
       THEN res.value = <<>>
       ELSE IF arg.href.path[firstOf(S)] = marker /\ S # {firstOf(S)}
       THEN res.value = arg.href.path[firstOf(S \ {firstOf(S)})]
       ELSE res.value = arg.href.path[lastOf(S)]

bob2 == <<"b", "o", "b", "_", "2">>

\* C27: the primary name of a record is its normalized title if that is not
\* empty, else its normalized value if that is not empty, else its normalized
\* URL name, whether or not the name fits the username pattern, and it is empty
\* only when all three are; an empty title with value "Bob_2" and no href gives
\* the primary "bob_2" and the candidates {"bob_2"}.
C27_FirstNonEmptyName ==
  res.fn = "extractUsername" =>
    LET t == norm(arg.entry.title)
        v == norm(arg.entry.value)
        h == norm(parseUsernameFromHref(arg.entry.href))
        primary == res.value.primary
    IN /\ primary \in {t, v, h}
       /\ primary = <<>> <=> (t = <<>> /\ v = <<>> /\ h = <<>>)
       /\ t # <<>> => primary = t
       /\ (t = <<>> /\ v # <<>>) => primary = v
       /\ (arg.entry.title = <<>> /\ arg.entry.value = <<"B", "o", "b", "_", "2">>
             /\ arg.entry.href = NoHref)
            => (primary = bob2 /\ res.value.candidates = <<bob2>>)

\* The title "a!" fails the pattern and is the primary all the same, while the
\* candidates are the value "bob_2" and the URL name "b".
C27_Witness ==
  /\ res.fn = "extractUsername"
  /\ arg.entry.title = <<"a", "!">>
  /\ res.value.primary = <<"a", "!">>
  /\ res.value.candidates = <<bob2, <<"b">> >>

\* C28: norm leaves a pattern-valid username as it is, and gives the same
\* username for its upper-case spelling with a leading "@".
C28_NormCaseAndPrefix ==
  res.fn = "norm" =>
    /\ isValidUsername(arg.u)
    /\ res.value.plain = arg.u
    /\ res.value.decorated = arg.u

\* "@Z_" is normalized to "z_".
C28_Witness ==
  /\ res.fn = "norm"
  /\ arg.decorated = <<"@", "Z", "_">>
  /\ res.value.decorated = <<"z", "_">>
  /\ res.value.plain = <<"z", "_">>

\* The value a key holds when the page itself has written it: a JSON array of
\* strings (saveSet), a JSON array of numbers (saveUnfollowEvents), the bare
\* word risk or strict (saveSafetyMode), a number (saveStrictCooldownUntil).
wellFormed(fn, item) ==
  CASE fn = "loadSet" ->
         /\ item.form = "json" /\ item.value.t = "arr"
         /\ \A i \in DOMAIN item.value.items : item.value.items[i].t \in {"str", "numstr"}
    [] fn = "loadUnfollowEvents" ->
         /\ item.form = "json" /\ item.value.t = "arr"
         /\ \A i \in DOMAIN item.value.items : item.value.items[i].t = "num"
    [] fn = "loadSafetyMode" -> item.form = "word" /\ item.word \in {"risk", "strict"}
    [] fn = "loadStrictCooldownUntil" -> item.form = "json" /\ item.value.t = "num"

isDefault(fn, v) ==
  CASE fn = "loadSet" -> v = {}
    [] fn = "loadUnfollowEvents" -> v = <<>>
    [] fn = "loadSafetyMode" -> v = "strict"
    [] fn = "loadStrictCooldownUntil" -> v = 0

notArray(item) == ~(item.form = "json" /\ item.value.t = "arr")

rightShape(data, key) ==
  \/ \E e \in SeqsUpTo(DocEntries, MaxDocEntries) : data = DocArray(e)
  \/ \E e \in SeqsUpTo(DocEntries, MaxDocEntries) :
       data = DocObject(key, [t |-> "array", items |-> e])

\* C30: a document that is neither an array nor an object holding an array
\* under the known key has zero entries: extractEntries returns the empty list,
\* the diagnostics total of that file is 0, and main goes on without an error.
C30_MalformedDocumentIsEmpty ==
  res.fn = "parseExports" =>
    /\ ~rightShape(arg.followersData, "relationships_followers") =>
         /\ ~extractEntries(arg.followersData, "relationships_followers").threw
         /\ extractEntries(arg.followersData, "relationships_followers").value = <<>>
         /\ ~res.value.threw
         /\ res.value.value.followers.total = 0
    /\ ~rightShape(arg.followingData, "relationships_following") =>
         /\ ~extractEntries(arg.followingData, "relationships_following").threw
         /\ extractEntries(arg.followingData, "relationships_following").value = <<>>
         /\ ~res.value.threw
         /\ res.value.value.following.total = 0
         /\ res.value.value.notFollowingBackAll = <<>>

\* C30 witness: the followers document is null and the following document holds
\* two records under the followers key; both files count zero entries.
C30_Witness ==
  /\ res.fn = "parseExports"
  /\ arg.followersData = DocScalar("null")
  /\ arg.followingData.t = "object"
  /\ Len(arg.followingData.members["relationships_followers"].items) = 2
  /\ ~res.value.threw
  /\ res.value.value.followers.total = 0
  /\ res.value.value.following.total = 0

\* C31: a confirmed reset leaves the safety mode as it was, stored and shown,
\* and the event log too: the events of the 24 hour window and those of the 90
\* minute window are the same before and after it, so used90 and used24 are.
C31_ResetKeepsLogAndMode ==
  [][ resetProgress(TRUE) =>
        /\ ls'.mode = ls.mode
        /\ ui'.safetyMode = ui.safetyMode
        /\ InWindow(loadUnfollowEvents(ls'.events), now', WINDOW_24_HOUR_MS)
             = InWindow(loadUnfollowEvents(ls.events), now, WINDOW_24_HOUR_MS)
        /\ InWindow(loadUnfollowEvents(ls'.events), now', WINDOW_90_MIN_MS)
             = InWindow(loadUnfollowEvents(ls.events), now, WINDOW_90_MIN_MS)
        /\ getRateState(loadUnfollowEvents(ls'.events), now')
             = getRateState(loadUnfollowEvents(ls.events), now) ]_vars

\* A reset in risk mode with nine events in the 90 minute window: the sets are
\* empty, the nine events are still counted and the mode is still risk.
C31_Witness ==
  /\ resetSeen
  /\ Idle
  /\ ls.mode = "risk"
  /\ ui.safetyMode = "risk"
  /\ unfollowedSet = {} /\ ls.unfollowed = {}
  /\ getRateState(storedEvents, now).used90 >= LIMIT_90_MIN - 1
  /\ getRateState(storedEvents, now).used24 >= LIMIT_90_MIN - 1

\* The wait a strict-mode refusal communicates, in milliseconds: the cooldown
\* remaining when the cooldown is active, otherwise wait90 when the 90 minute
\* window blocks, otherwise wait24.
communicatedWait(latestEvents, until, t) ==
  IF getStrictCooldownRemaining(until, t) > 0
  THEN getStrictCooldownRemaining(until, t)
  ELSE IF getRateState(latestEvents, t).used90 >= LIMIT_90_MIN
  THEN getRateState(latestEvents, t).wait90
  ELSE getRateState(latestEvents, t).wait24

\* How much later than the end of the wait the next request is made.
LaterBy == {1, MS_PER_MINUTE, 45 * MS_PER_MINUTE}

\* C32: when a strict-mode mark-done request at time t is refused with the
\* communicated wait w, a request made later than t + w with no commit in between
\* (the log and the cooldown being what the refusal left) is admitted.
C32_AdmittedAfterWait ==
  [][\A u \in Users :
       (markDoneRequest(u) /\ ui.safetyMode = "strict" /\ Refused(u)) =>
         LET w == communicatedWait(storedEvents, ls.cooldown, now)
         IN \A d \in LaterBy :
              ~gateRefuses("strict",
                           pruneUnfollowEvents(loadUnfollowEvents(ls'.events), now + w + d),
                           ls'.cooldown, now + w + d)]_vars

\* C33: every mark-done request that has passed the gate check is committed when
\* the animation of its row ends, also when another operation re-renders the
\* lists in between: a step other than a page load leaves its deferred commit in
\* place, or is that commit, with the user in done and the event in the log.
C33_AdmittedIsCommitted ==
  [][\A cb \in waiting \cup queued :
       cb.kind = "commit" =>
         \/ cb \in waiting' \cup queued'
         \/ /\ cb.user \in unfollowedSet'
            /\ Len(ls'.events) > 0
            /\ ls'.events[Len(ls'.events)] = now
            /\ hist' # hist
         \/ \E ok \in BOOLEAN : main(ok)]_vars

\* C34: a commit in risk mode saves the log it was given with its own time
\* appended, pruned to 24 hours as a strict-mode commit does, and leaves the
\* cooldown as it was whatever used90 becomes; the gate of a later strict-mode
\* request counts every stored event, those logged in risk mode included.
C34_RiskCommitLogsNoCooldown ==
  [][ /\ \A cb \in queued :
           commitChecked(cb) =>
             /\ ls'.events = InWindow(Append(cb.snap, now), now, WINDOW_24_HOUR_MS)
             /\ ls'.events[Len(ls'.events)] = now
             /\ bat.safetyMode = "risk" => ls'.cooldown = ls.cooldown
      /\ \A u \in Users :
           (markDoneRequest(u) /\ ui.safetyMode = "strict" /\ now >= ls.cooldown) =>
             (Refused(u) <=>
                (CountWithin(ls.events, now, WINDOW_90_MIN_MS) >= LIMIT_90_MIN
                   \/ CountWithin(ls.events, now, WINDOW_24_HOUR_MS) >= LIMIT_24_HOUR)) ]_vars

\* After a switch back to strict mode: the tenth event of the 90 minute window
\* was committed in risk mode, no cooldown was set, and the gate refuses by count.
C34_Witness ==
  /\ Idle
  /\ ui.safetyMode = "strict"
  /\ ls.mode = "strict"
  /\ ~strictSession
  /\ ls.cooldown = 0
  /\ unfollowedSet # {}
  /\ Len(hist) = LIMIT_90_MIN
  /\ ls.events = hist
  /\ getRateState(storedEvents, now).used90 = LIMIT_90_MIN
  /\ gateRefuses("strict", storedEvents, ls.cooldown, now)

\* C35: in a session in strict mode since the log was empty, with no reset,
\* whenever the cooldown is inactive fewer than 10 stored events lie in the 90
\* minute window, so the gate refuses then only when the 24 hour window is full.
C35_CooldownCoversFullWindow ==
  (strictSession /\ ~resetSeen /\ now >= ls.cooldown) =>
    /\ CountWithin(ls.events, now, WINDOW_90_MIN_MS) < LIMIT_90_MIN
    /\ gateRefuses("strict", storedEvents, ls.cooldown, now) =>
         getRateState(storedEvents, now).used24 >= LIMIT_24_HOUR

\* The cooldown set by the tenth commit of the window has just run out: that
\* commit is exactly 90 minutes old and is the one event still in the window.
C35_Witness ==
  /\ Idle
  /\ strictSession /\ ~resetSeen
  /\ Len(hist) >= LIMIT_90_MIN
  /\ ls.cooldown = hist[Len(hist)] + WINDOW_90_MIN_MS
  /\ now = ls.cooldown
  /\ CountWithin(ls.events, now, WINDOW_90_MIN_MS) = 1

\* C36: whenever getRateState reports canUnfollow = false, the wait of the window
\* that blocks (wait90 when the 90 minute window is full, otherwise wait24) is
\* strictly positive.
C36_BlockedWaitPositive ==
  res.fn = "getRateState" =>
    (~res.value.canUnfollow =>
       (IF res.value.used90 >= LIMIT_90_MIN THEN res.value.wait90 ELSE res.value.wait24) > 0)

\* The five sets, in memory and stored, and the stored cooldown stay as they are.
SetsAndCooldownKept ==
  /\ UNCHANGED <<unfollowedSet, tbdSet, pnfSet, visitedSet, pinnedSet>>
  /\ ls'.unfollowed = ls.unfollowed /\ ls'.tbd = ls.tbd /\ ls'.pnf = ls.pnf
  /\ ls'.visited = ls.visited /\ ls'.pinned = ls.pinned
  /\ ls'.cooldown = ls.cooldown

\* C37, amended: the safety toggle stores the other mode and leaves done, tbd,
\* not-found, pinned, visited and the cooldown unchanged; of the stored event log
\* it drops the entries older than 24 hours and nothing else.  Neither a gate
\* check nor a commit changes the stored mode.
C37_ToggleChangesModeOnly ==
  [][ /\ toggleSafety =>
           /\ ls'.mode = (IF ui.safetyMode = "strict" THEN "risk" ELSE "strict")
           /\ ui'.safetyMode = ls'.mode
           /\ SetsAndCooldownKept
           /\ ls'.events = InWindow(loadUnfollowEvents(ls.events), now, WINDOW_24_HOUR_MS)
           /\ hist' = hist
      /\ \A u \in Users : markDoneRequest(u) => ls'.mode = ls.mode
      /\ \A cb \in queued : commitChecked(cb) => ls'.mode = ls.mode ]_vars

\* Back in strict mode after two toggles, during the cooldown of a tenth commit:
\* the cooldown, the log and the done set are still there.
C37_Witness ==
  /\ Idle
  /\ ls.mode = "strict" /\ ui.safetyMode = "strict"
  /\ ~strictSession
  /\ ls.cooldown > now
  /\ Len(ls.events) = LIMIT_90_MIN
  /\ unfollowedSet # {} /\ ls.unfollowed = unfollowedSet

\* C37 as stated: the safety toggle changes the stored mode and nothing else.
C37_ToggleTouchesOnlyMode ==
  [][ toggleSafety => ls' = [ls EXCEPT !.mode = ls'.mode] ]_vars

\* C38: for every list of records parseUsernames reports total = the number of
\* records, parsed = the number with a non-empty primary name, invalid = the
\* number of those whose primary fails the username pattern and unique = the
\* number of distinct pattern-valid primaries (the names it returns), so
\* total >= parsed >= invalid and unique <= parsed - invalid.
C38_DiagnosticCounts ==
  res.fn = "parseUsernames" =>
    LET e == arg.entries
        stats == res.value.stats
        named == {i \in DOMAIN e : extractUsername(e[i]) # <<>>}
        failing == {i \in named : ~isValidUsername(extractUsername(e[i]))}
        primaries == {extractUsername(e[i]) : i \in named \ failing}
    IN /\ stats.total = Len(e)
       /\ stats.parsed = Cardinality(named)
       /\ stats.invalid = Cardinality(failing)
       /\ stats.unique = Cardinality(primaries)
       /\ Range(res.value.usernames) = primaries
       /\ stats.total >= stats.parsed /\ stats.parsed >= stats.invalid
       /\ stats.unique <= stats.parsed - stats.invalid

\* Four records: one without a name, one with an invalid name and two with the
\* same valid name; every inequality is strict.
C38_Witness ==
  /\ res.fn = "parseUsernames"
  /\ res.value.stats = [label |-> "followers", total |-> 4, parsed |-> 3, invalid |-> 1,
                        unique |-> 1]

====
